---------------------------- MODULE Spec2Model ----------------------------
(***************************************************************************)
(* The Keithley 2450 and Keithley 6221 drivers of pymeasure: the property  *)
(* catalogue of both instruments (query command, write template,           *)
(* validator, value domain, value map, cast), the set and get paths that   *)
(* Instrument.control / Instrument.measurement give every property, the    *)
(* conversions between Python values and the text on the wire, and the     *)
(* ramp methods.  The driver keeps no state: the state is the device's     *)
(* registers and the messages handed to the adapter.                       *)
(***************************************************************************)
EXTENDS Integers, Sequences, FiniteSets, TLC

VARIABLES
    prop,      \* the property this session accesses (a key of Catalog)
    dev,       \* device: register -> token it answers a query with
    sent,      \* messages the last operation handed to the adapter, in order
    result,    \* what the last operation returned or raised
    op,        \* the last operation and its arguments
    last_set,  \* the value of the last set that succeeded (history)
    ramps      \* number of ramps run so far

vars == <<prop, dev, sent, result, op, last_set, ramps>>

-----------------------------------------------------------------------------
(* Decimal numbers.  A number is m * 10^e, kept canonical (m has no        *)
(* trailing zero, zero is 0 * 10^0), so that two numbers are equal exactly *)
(* when their (m, e) are.  Python values are records of one shape:         *)
(*   k = "int" | "float" | "bool" | "str" | "inf" | "none".                *)

Abs(n) == IF n < 0 THEN -n ELSE n

RECURSIVE Pow10(_)
Pow10(k) == IF k = 0 THEN 1 ELSE 10 * Pow10(k - 1)

RECURSIVE Digits(_)
Digits(n) == IF n < 10 THEN 1 ELSE 1 + Digits(n \div 10)

RECURSIVE Norm(_, _)
Norm(m, e) ==
    IF m = 0 THEN <<0, 0>>
    ELSE IF m % 10 = 0 THEN Norm(m \div 10, e + 1)
    ELSE <<m, e>>

Num(kind, m, e) ==
    LET n == Norm(Abs(m), e)
    IN  [k |-> kind, m |-> IF m < 0 THEN -n[1] ELSE n[1], e |-> n[2], s |-> ""]

PyInt(n)       == Num("int", n, 0)
PyIntE(m, e)   == Num("int", m, e)
PyFloat(m, e)  == Num("float", m, e)
PyBool(b)      == [k |-> "bool", m |-> IF b THEN 1 ELSE 0, e |-> 0, s |-> ""]
PyStr(str)     == [k |-> "str", m |-> 0, e |-> 0, s |-> str]
PyInf          == [k |-> "inf", m |-> 1, e |-> 0, s |-> ""]
PyNone         == [k |-> "none", m |-> 0, e |-> 0, s |-> ""]

IsNumber(v) == v.k \in {"int", "float", "bool"}

\* a < b for positive canonical mantissas/exponents.
MagLess(am, ae, bm, be) ==
    LET da == Digits(am)
        db == Digits(bm)
        w  == IF da > db THEN da ELSE db
    IN  IF da + ae # db + be THEN da + ae < db + be
        ELSE am * Pow10(w - da) < bm * Pow10(w - db)

\* Python's a < b on numbers (a bool counts as 1 or 0).
NumLess(a, b) ==
    IF a.m < 0 /\ b.m >= 0 THEN TRUE
    ELSE IF a.m >= 0 /\ b.m < 0 THEN FALSE
    ELSE IF a.m = 0 THEN b.m > 0
    ELSE IF b.m = 0 THEN FALSE
    ELSE IF a.m > 0 THEN MagLess(a.m, a.e, b.m, b.e)
    ELSE MagLess(-b.m, b.e, -a.m, a.e)

NumLeq(a, b) == ~NumLess(b, a)

\* Python's a == b: numbers by value whatever their type, strings by text.
PyEq(a, b) ==
    IF IsNumber(a) /\ IsNumber(b) THEN a.m = b.m /\ a.e = b.e
    ELSE a.k = b.k /\ a.m = b.m /\ a.e = b.e /\ a.s = b.s

-----------------------------------------------------------------------------
(* Text on the wire.  A token is the text written or answered together     *)
(* with the Python value that text denotes when it is parsed back          *)
(* (val.k = "int" for an integer literal, "float" for any other numeral,   *)
(* "inf" for INF, "str" for a word that is no numeral).                    *)

Token(text, val) == [text |-> text, val |-> val]

Word(text) == Token(text, PyStr(text))

DigitStr == <<"0", "1", "2", "3", "4", "5", "6", "7", "8", "9">>

RECURSIVE NatStr(_)
NatStr(n) == IF n < 10 THEN DigitStr[n + 1]
             ELSE NatStr(n \div 10) \o DigitStr[(n % 10) + 1]

RECURSIVE Zeros(_)
Zeros(k) == IF k <= 0 THEN "" ELSE "0" \o Zeros(k - 1)

\* n written with exactly w digits (leading zeros).
PadNat(n, w) == Zeros(w - Digits(n)) \o NatStr(n)

\* m * 10^e (m > 0, canonical) in positional notation.
FixedText(m, e) ==
    IF e >= 0 THEN NatStr(m) \o Zeros(e)
    ELSE LET d == Digits(m)
             p == -e
         IN  IF p < d
             THEN NatStr(m \div Pow10(p)) \o "." \o PadNat(m % Pow10(p), p)
             ELSE "0." \o Zeros(p - d) \o NatStr(m)

\* m * 10^e (m > 0, canonical) as d.ddde+XX, the exponent of two digits
\* at least.
SciText(m, e) ==
    LET d == Digits(m)
        x == d - 1 + e
        lead == m \div Pow10(d - 1)
        rest == m % Pow10(d - 1)
    IN  NatStr(lead)
        \o (IF d > 1 THEN "." \o PadNat(rest, d - 1) ELSE "")
        \o "e" \o (IF x < 0 THEN "-" ELSE "+")
        \o (IF Abs(x) < 10 THEN "0" ELSE "") \o NatStr(Abs(x))

\* m * 10^e (m > 0) rounded to six significant digits, as <<m, e>>.
Round6(m, e) ==
    LET d == Digits(m)
    IN  IF d <= 6 THEN Norm(m, e)
        ELSE LET drop == d - 6
                 q == m \div Pow10(drop)
                 r == m % Pow10(drop)
             IN  Norm(IF 2 * r >= Pow10(drop) THEN q + 1 ELSE q, e + drop)

Sign(v) == IF v.m < 0 THEN "-" ELSE ""

\* The text of v whose magnitude rounds to r = <<m, e>>, with the number
\* that text reads back as.
GText(v, r) ==
    IF Digits(r[1]) - 1 + r[2] < -4 \/ Digits(r[1]) - 1 + r[2] >= 6
    THEN Token(Sign(v) \o SciText(r[1], r[2]),
               PyFloat(IF v.m < 0 THEN -r[1] ELSE r[1], r[2]))
    ELSE Token(Sign(v) \o FixedText(r[1], r[2]),
               Num(IF r[2] >= 0 THEN "int" ELSE "float",
                   IF v.m < 0 THEN -r[1] ELSE r[1], r[2]))

\* '%g' % v: six significant digits, exponent form when the decimal
\* exponent is below -4 or at least 6, no trailing zeros.
FormatG(v) ==
    IF v.m = 0 THEN Token("0", PyInt(0)) ELSE GText(v, Round6(Abs(v.m), v.e))

\* '%d' % v: the integer part of v (truncated toward zero).
FormatD(v) ==
    LET a == Abs(v.m)
        t == IF v.e >= 0 THEN <<a, v.e>>
             ELSE IF -v.e >= Digits(a) THEN <<0, 0>>
             ELSE Norm(a \div Pow10(-v.e), 0)
    IN  IF t[1] = 0 THEN Token("0", PyInt(0))
        ELSE Token(Sign(v) \o FixedText(t[1], t[2]),
                   PyIntE(IF v.m < 0 THEN -t[1] ELSE t[1], t[2]))

\* '%s' % v: str(v).  A float prints the shortest numeral that reads back
\* as itself, with '.0' when it is whole, in exponent form when the
\* decimal exponent is below -4 or at least 16.
FormatS(v) ==
    CASE v.k = "str"  -> Token(v.s, IF v.s \in {"INF", "inf"} THEN PyInf ELSE v)
      [] v.k = "bool" -> Word(IF v.m = 1 THEN "True" ELSE "False")
      [] v.k = "none" -> Word("None")
      [] v.k = "inf"  -> Token("inf", PyInf)
      [] v.k = "int"  -> IF v.m = 0 THEN Token("0", PyInt(0))
                         ELSE Token(Sign(v) \o FixedText(Abs(v.m), v.e), v)
      [] v.k = "float" ->
            IF v.m = 0 THEN Token("0.0", PyFloat(0, 0))
            ELSE LET a == Abs(v.m)
                     x == Digits(a) - 1 + v.e
                 IN  IF x < -4 \/ x >= 16
                     THEN Token(Sign(v) \o SciText(a, v.e), v)
                     ELSE Token(Sign(v) \o FixedText(a, v.e)
                                  \o (IF v.e >= 0 THEN ".0" ELSE ""), v)

-----------------------------------------------------------------------------
(* The property catalogue: one record per Instrument.control and           *)
(* Instrument.measurement declaration.  query is the get command; pre is   *)
(* the literal commands of the write template before the placeholder, hdr  *)
(* the header the placeholder belongs to and fmt the placeholder; range is *)
(* the [low, high] of values, set the list of values or the keys of a value*)
(* map and toks the wire tokens of the map, in the order declared.         *)

K2450_source_mode ==
    [inst |-> "K2450", kind |-> "control", query |-> ":SOUR:FUNC?",
     pre |-> <<>>, hdr |-> ":SOUR:FUNC", fmt |-> "%s",
     validator |-> "strict_discrete_set", range |-> <<>>,
     set |-> <<PyStr("current"), PyStr("voltage")>>,
     toks |-> <<PyStr("CURR"), PyStr("VOLT")>>,
     map_values |-> TRUE, cast |-> "none", get_process |-> <<>>]

K2450_source_enabled ==
    [inst |-> "K2450", kind |-> "measurement", query |-> "OUTPUT?",
     pre |-> <<>>, hdr |-> "", fmt |-> "",
     validator |-> "none", range |-> <<>>,
     set |-> <<>>,
     toks |-> <<>>,
     map_values |-> FALSE, cast |-> "bool", get_process |-> <<>>]

K2450_current ==
    [inst |-> "K2450", kind |-> "measurement", query |-> ":READ?",
     pre |-> <<>>, hdr |-> "", fmt |-> "",
     validator |-> "none", range |-> <<>>,
     set |-> <<>>,
     toks |-> <<>>,
     map_values |-> FALSE, cast |-> "none", get_process |-> <<>>]

K2450_current_range ==
    [inst |-> "K2450", kind |-> "control", query |-> ":SENS:CURR:RANG?",
     pre |-> <<[hdr |-> ":SENS:CURR:RANG:AUTO", arg |-> "0"]>>, hdr |-> ":SENS:CURR:RANG", fmt |-> "%g",
     validator |-> "truncated_range", range |-> <<PyFloat(-105, -2), PyFloat(105, -2)>>,
     set |-> <<>>,
     toks |-> <<>>,
     map_values |-> FALSE, cast |-> "none", get_process |-> <<>>]

K2450_current_nplc ==
    [inst |-> "K2450", kind |-> "control", query |-> ":SENS:CURR:NPLC?",
     pre |-> <<>>, hdr |-> ":SENS:CURR:NPLC", fmt |-> "%g",
     validator |-> "none", range |-> <<PyFloat(1, -2), PyInt(10)>>,
     set |-> <<>>,
     toks |-> <<>>,
     map_values |-> FALSE, cast |-> "none", get_process |-> <<>>]

K2450_compliance_current ==
    [inst |-> "K2450", kind |-> "control", query |-> ":SOUR:VOLT:ILIM?",
     pre |-> <<>>, hdr |-> ":SOUR:VOLT:ILIM", fmt |-> "%g",
     validator |-> "truncated_range", range |-> <<PyFloat(-105, -2), PyFloat(105, -2)>>,
     set |-> <<>>,
     toks |-> <<>>,
     map_values |-> FALSE, cast |-> "none", get_process |-> <<>>]

K2450_source_current ==
    [inst |-> "K2450", kind |-> "control", query |-> ":SOUR:CURR?",
     pre |-> <<>>, hdr |-> ":SOUR:CURR:LEV", fmt |-> "%g",
     validator |-> "none", range |-> <<>>,
     set |-> <<>>,
     toks |-> <<>>,
     map_values |-> FALSE, cast |-> "none", get_process |-> <<>>]

\* source_current_range with a write template of the range command alone.
K2450_source_current_range_without_auto_off ==
    [inst |-> "K2450", kind |-> "control", query |-> ":SOUR:CURR:RANG?",
     pre |-> <<>>, hdr |-> ":SOUR:CURR:RANG", fmt |-> "%g",
     validator |-> "truncated_range", range |-> <<PyFloat(-105, -2), PyFloat(105, -2)>>,
     set |-> <<>>,
     toks |-> <<>>,
     map_values |-> FALSE, cast |-> "none", get_process |-> <<>>]

K2450_source_current_range ==
    [inst |-> "K2450", kind |-> "control", query |-> ":SOUR:CURR:RANG?",
     pre |-> <<[hdr |-> ":SOUR:CURR:RANG:AUTO", arg |-> "0"]>>, hdr |-> ":SOUR:CURR:RANG", fmt |-> "%g",
     validator |-> "truncated_range", range |-> <<PyFloat(-105, -2), PyFloat(105, -2)>>,
     set |-> <<>>,
     toks |-> <<>>,
     map_values |-> FALSE, cast |-> "none", get_process |-> <<>>]

K2450_source_current_delay ==
    [inst |-> "K2450", kind |-> "control", query |-> ":SOUR:CURR:DEL?",
     pre |-> <<>>, hdr |-> ":SOUR:CURR:DEL", fmt |-> "%g",
     validator |-> "truncated_range", range |-> <<PyInt(0), PyFloat(9999999, -4)>>,
     set |-> <<>>,
     toks |-> <<>>,
     map_values |-> FALSE, cast |-> "none", get_process |-> <<>>]

K2450_source_current_delay_auto ==
    [inst |-> "K2450", kind |-> "control", query |-> ":SOUR:CURR:DEL:AUTO?",
     pre |-> <<>>, hdr |-> ":SOUR:CURR:DEL:AUTO", fmt |-> "%d",
     validator |-> "none", range |-> <<>>,
     set |-> <<PyBool(TRUE), PyBool(FALSE)>>,
     toks |-> <<PyInt(1), PyInt(0)>>,
     map_values |-> TRUE, cast |-> "none", get_process |-> <<>>]

\* A voltage getter that asks for a voltage reading.
K2450_voltage_measured ==
    [inst |-> "K2450", kind |-> "measurement", query |-> ":MEAS:VOLT?",
     pre |-> <<>>, hdr |-> "", fmt |-> "",
     validator |-> "none", range |-> <<>>,
     set |-> <<>>,
     toks |-> <<>>,
     map_values |-> FALSE, cast |-> "none", get_process |-> <<>>]

K2450_voltage ==
    [inst |-> "K2450", kind |-> "measurement", query |-> ":READ?",
     pre |-> <<>>, hdr |-> "", fmt |-> "",
     validator |-> "none", range |-> <<>>,
     set |-> <<>>,
     toks |-> <<>>,
     map_values |-> FALSE, cast |-> "none", get_process |-> <<>>]

K2450_voltage_range ==
    [inst |-> "K2450", kind |-> "control", query |-> ":SENS:VOLT:RANG?",
     pre |-> <<[hdr |-> ":SENS:VOLT:RANG:AUTO", arg |-> "0"]>>, hdr |-> ":SENS:VOLT:RANG", fmt |-> "%g",
     validator |-> "truncated_range", range |-> <<PyInt(-210), PyInt(210)>>,
     set |-> <<>>,
     toks |-> <<>>,
     map_values |-> FALSE, cast |-> "none", get_process |-> <<>>]

K2450_voltage_nplc ==
    [inst |-> "K2450", kind |-> "control", query |-> ":SENS:VOLT:NPLC?",
     pre |-> <<>>, hdr |-> ":SENS:VOLT:NPLC", fmt |-> "%g",
     validator |-> "none", range |-> <<>>,
     set |-> <<>>,
     toks |-> <<>>,
     map_values |-> FALSE, cast |-> "none", get_process |-> <<>>]

K2450_compliance_voltage ==
    [inst |-> "K2450", kind |-> "control", query |-> ":SOUR:CURR:VLIM?",
     pre |-> <<>>, hdr |-> ":SOUR:CURR:VLIM", fmt |-> "%g",
     validator |-> "truncated_range", range |-> <<PyInt(-210), PyInt(210)>>,
     set |-> <<>>,
     toks |-> <<>>,
     map_values |-> FALSE, cast |-> "none", get_process |-> <<>>]

K2450_source_voltage ==
    [inst |-> "K2450", kind |-> "control", query |-> ":SOUR:VOLT?",
     pre |-> <<>>, hdr |-> ":SOUR:VOLT:LEV", fmt |-> "%g",
     validator |-> "none", range |-> <<>>,
     set |-> <<>>,
     toks |-> <<>>,
     map_values |-> FALSE, cast |-> "none", get_process |-> <<>>]

K2450_source_voltage_range ==
    [inst |-> "K2450", kind |-> "control", query |-> ":SOUR:VOLT:RANG?",
     pre |-> <<[hdr |-> ":SOUR:VOLT:RANG:AUTO", arg |-> "0"]>>, hdr |-> ":SOUR:VOLT:RANG", fmt |-> "%g",
     validator |-> "truncated_range", range |-> <<PyInt(-210), PyInt(210)>>,
     set |-> <<>>,
     toks |-> <<>>,
     map_values |-> FALSE, cast |-> "none", get_process |-> <<>>]

K2450_source_voltage_delay ==
    [inst |-> "K2450", kind |-> "control", query |-> ":SOUR:VOLT:DEL?",
     pre |-> <<>>, hdr |-> ":SOUR:VOLT:DEL", fmt |-> "%g",
     validator |-> "truncated_range", range |-> <<PyInt(0), PyFloat(9999999, -4)>>,
     set |-> <<>>,
     toks |-> <<>>,
     map_values |-> FALSE, cast |-> "none", get_process |-> <<>>]

K2450_source_voltage_delay_auto ==
    [inst |-> "K2450", kind |-> "control", query |-> ":SOUR:VOLT:DEL:AUTO?",
     pre |-> <<>>, hdr |-> ":SOUR:VOLT:DEL:AUTO", fmt |-> "%d",
     validator |-> "none", range |-> <<>>,
     set |-> <<PyBool(TRUE), PyBool(FALSE)>>,
     toks |-> <<PyInt(1), PyInt(0)>>,
     map_values |-> TRUE, cast |-> "none", get_process |-> <<>>]

K2450_resistance ==
    [inst |-> "K2450", kind |-> "measurement", query |-> ":READ?",
     pre |-> <<>>, hdr |-> "", fmt |-> "",
     validator |-> "none", range |-> <<>>,
     set |-> <<>>,
     toks |-> <<>>,
     map_values |-> FALSE, cast |-> "none", get_process |-> <<>>]

K2450_resistance_range ==
    [inst |-> "K2450", kind |-> "control", query |-> ":SENS:RES:RANG?",
     pre |-> <<[hdr |-> ":SENS:RES:RANG:AUTO", arg |-> "0"]>>, hdr |-> ":SENS:RES:RANG", fmt |-> "%g",
     validator |-> "truncated_range", range |-> <<PyInt(0), PyFloat(21, 7)>>,
     set |-> <<>>,
     toks |-> <<>>,
     map_values |-> FALSE, cast |-> "none", get_process |-> <<>>]

K2450_resistance_nplc ==
    [inst |-> "K2450", kind |-> "control", query |-> ":SENS:RES:NPLC?",
     pre |-> <<>>, hdr |-> ":SENS:RES:NPLC", fmt |-> "%g",
     validator |-> "none", range |-> <<>>,
     set |-> <<>>,
     toks |-> <<>>,
     map_values |-> FALSE, cast |-> "none", get_process |-> <<>>]

K2450_wires ==
    [inst |-> "K2450", kind |-> "control", query |-> ":SENS:RES:RSENSE?",
     pre |-> <<>>, hdr |-> ":SENS:RES:RSENSE", fmt |-> "%d",
     validator |-> "strict_discrete_set", range |-> <<>>,
     set |-> <<PyInt(4), PyInt(2)>>,
     toks |-> <<PyInt(1), PyInt(0)>>,
     map_values |-> TRUE, cast |-> "none", get_process |-> <<>>]

K2450_buffer_points ==
    [inst |-> "K2450", kind |-> "control", query |-> ":TRAC:POIN?",
     pre |-> <<>>, hdr |-> ":TRAC:POIN", fmt |-> "%d",
     validator |-> "truncated_range", range |-> <<PyInt(1), PyInt(6875000)>>,
     set |-> <<>>,
     toks |-> <<>>,
     map_values |-> FALSE, cast |-> "int", get_process |-> <<>>]

K2450_means ==
    [inst |-> "K2450", kind |-> "measurement", query |-> ":TRACe:STATistics:AVERage?",
     pre |-> <<>>, hdr |-> "", fmt |-> "",
     validator |-> "none", range |-> <<>>,
     set |-> <<>>,
     toks |-> <<>>,
     map_values |-> FALSE, cast |-> "none", get_process |-> <<>>]

K2450_maximums ==
    [inst |-> "K2450", kind |-> "measurement", query |-> ":TRACe:STATistics:MAXimum?",
     pre |-> <<>>, hdr |-> "", fmt |-> "",
     validator |-> "none", range |-> <<>>,
     set |-> <<>>,
     toks |-> <<>>,
     map_values |-> FALSE, cast |-> "none", get_process |-> <<>>]

K2450_minimums ==
    [inst |-> "K2450", kind |-> "measurement", query |-> ":TRACe:STATistics:MINimum?",
     pre |-> <<>>, hdr |-> "", fmt |-> "",
     validator |-> "none", range |-> <<>>,
     set |-> <<>>,
     toks |-> <<>>,
     map_values |-> FALSE, cast |-> "none", get_process |-> <<>>]

K2450_standard_devs ==
    [inst |-> "K2450", kind |-> "measurement", query |-> ":TRACe:STATistics:STDDev?",
     pre |-> <<>>, hdr |-> "", fmt |-> "",
     validator |-> "none", range |-> <<>>,
     set |-> <<>>,
     toks |-> <<>>,
     map_values |-> FALSE, cast |-> "none", get_process |-> <<>>]

\* current_filter_type declared without its validator.
K2450_current_filter_type_unvalidated ==
    [inst |-> "K2450", kind |-> "control", query |-> ":SENS:CURR:AVER:TCON?",
     pre |-> <<>>, hdr |-> ":SENS:CURR:AVER:TCON", fmt |-> "%s",
     validator |-> "none", range |-> <<>>,
     set |-> <<PyStr("REP"), PyStr("MOV")>>,
     toks |-> <<>>,
     map_values |-> FALSE, cast |-> "none", get_process |-> <<>>]

K2450_current_filter_type ==
    [inst |-> "K2450", kind |-> "control", query |-> ":SENS:CURR:AVER:TCON?",
     pre |-> <<>>, hdr |-> ":SENS:CURR:AVER:TCON", fmt |-> "%s",
     validator |-> "strict_discrete_set", range |-> <<>>,
     set |-> <<PyStr("REP"), PyStr("MOV")>>,
     toks |-> <<>>,
     map_values |-> FALSE, cast |-> "none", get_process |-> <<>>]

K2450_current_filter_count ==
    [inst |-> "K2450", kind |-> "control", query |-> ":SENS:CURR:AVER:COUNT?",
     pre |-> <<>>, hdr |-> ":SENS:CURR:AVER:COUNT", fmt |-> "%d",
     validator |-> "truncated_range", range |-> <<PyInt(1), PyInt(100)>>,
     set |-> <<>>,
     toks |-> <<>>,
     map_values |-> FALSE, cast |-> "int", get_process |-> <<>>]

K2450_current_filter_state ==
    [inst |-> "K2450", kind |-> "control", query |-> ":SENS:CURR:AVER?",
     pre |-> <<>>, hdr |-> ":SENS:CURR:AVER", fmt |-> "%s",
     validator |-> "strict_discrete_set", range |-> <<>>,
     set |-> <<PyStr("ON"), PyStr("OFF")>>,
     toks |-> <<>>,
     map_values |-> FALSE, cast |-> "none", get_process |-> <<>>]

K2450_voltage_filter_type ==
    [inst |-> "K2450", kind |-> "control", query |-> ":SENS:VOLT:AVER:TCON?",
     pre |-> <<>>, hdr |-> ":SENS:VOLT:AVER:TCON", fmt |-> "%s",
     validator |-> "strict_discrete_set", range |-> <<>>,
     set |-> <<PyStr("REP"), PyStr("MOV")>>,
     toks |-> <<>>,
     map_values |-> FALSE, cast |-> "none", get_process |-> <<>>]

K2450_voltage_filter_count ==
    [inst |-> "K2450", kind |-> "control", query |-> ":SENS:VOLT:AVER:COUNT?",
     pre |-> <<>>, hdr |-> ":SENS:VOLT:AVER:COUNT", fmt |-> "%d",
     validator |-> "truncated_range", range |-> <<PyInt(1), PyInt(100)>>,
     set |-> <<>>,
     toks |-> <<>>,
     map_values |-> FALSE, cast |-> "int", get_process |-> <<>>]

K2450_current_output_off_state ==
    [inst |-> "K2450", kind |-> "control", query |-> ":OUTP:CURR:SMOD?",
     pre |-> <<>>, hdr |-> ":OUTP:CURR:SMOD", fmt |-> "%s",
     validator |-> "strict_discrete_set", range |-> <<>>,
     set |-> <<PyStr("HIMP"), PyStr("NORM"), PyStr("ZERO"), PyStr("GUAR")>>,
     toks |-> <<>>,
     map_values |-> FALSE, cast |-> "none", get_process |-> <<>>]

K2450_voltage_output_off_state ==
    [inst |-> "K2450", kind |-> "control", query |-> ":OUTP:VOLT:SMOD?",
     pre |-> <<>>, hdr |-> ":OUTP:VOLT:SMOD", fmt |-> "%s",
     validator |-> "strict_discrete_set", range |-> <<>>,
     set |-> <<PyStr("HIMP"), PyStr("NORM"), PyStr("ZERO"), PyStr("GUAR")>>,
     toks |-> <<>>,
     map_values |-> FALSE, cast |-> "none", get_process |-> <<>>]

K6221_source_enabled ==
    [inst |-> "K6221", kind |-> "control", query |-> "OUTPut?",
     pre |-> <<>>, hdr |-> "OUTPut", fmt |-> "%d",
     validator |-> "strict_discrete_set", range |-> <<>>,
     set |-> <<PyBool(TRUE), PyBool(FALSE)>>,
     toks |-> <<PyInt(1), PyInt(0)>>,
     map_values |-> TRUE, cast |-> "none", get_process |-> <<>>]

\* shield_to_guard_enabled declared without map_values.
K6221_shield_to_guard_enabled_unmapped ==
    [inst |-> "K6221", kind |-> "control", query |-> ":OUTPut:ISHield?",
     pre |-> <<>>, hdr |-> ":OUTPut:ISHield", fmt |-> "%s",
     validator |-> "none", range |-> <<>>,
     set |-> <<PyBool(TRUE), PyBool(FALSE)>>,
     toks |-> <<PyStr("GUAR"), PyStr("OLOW")>>,
     map_values |-> FALSE, cast |-> "none", get_process |-> <<>>]

K6221_shield_to_guard_enabled ==
    [inst |-> "K6221", kind |-> "control", query |-> ":OUTPut:ISHield?",
     pre |-> <<>>, hdr |-> ":OUTPut:ISHield", fmt |-> "%s",
     validator |-> "none", range |-> <<>>,
     set |-> <<PyBool(TRUE), PyBool(FALSE)>>,
     toks |-> <<PyStr("GUAR"), PyStr("OLOW")>>,
     map_values |-> TRUE, cast |-> "none", get_process |-> <<>>]

K6221_source_delay ==
    [inst |-> "K6221", kind |-> "control", query |-> ":SOUR:DEL?",
     pre |-> <<>>, hdr |-> ":SOUR:DEL", fmt |-> "%g",
     validator |-> "truncated_range", range |-> <<PyFloat(1, -3), PyFloat(999999999, -3)>>,
     set |-> <<>>,
     toks |-> <<>>,
     map_values |-> FALSE, cast |-> "none", get_process |-> <<>>]

K6221_output_low_grounded ==
    [inst |-> "K6221", kind |-> "control", query |-> ":OUTP:LTE?",
     pre |-> <<>>, hdr |-> "OUTP:LTE", fmt |-> "%d",
     validator |-> "strict_discrete_set", range |-> <<>>,
     set |-> <<PyBool(TRUE), PyBool(FALSE)>>,
     toks |-> <<PyInt(1), PyInt(0)>>,
     map_values |-> TRUE, cast |-> "none", get_process |-> <<>>]

K6221_source_current ==
    [inst |-> "K6221", kind |-> "control", query |-> ":SOUR:CURR?",
     pre |-> <<>>, hdr |-> ":SOUR:CURR", fmt |-> "%g",
     validator |-> "truncated_range", range |-> <<PyFloat(-105, -3), PyFloat(105, -3)>>,
     set |-> <<>>,
     toks |-> <<>>,
     map_values |-> FALSE, cast |-> "none", get_process |-> <<>>]

K6221_source_compliance ==
    [inst |-> "K6221", kind |-> "control", query |-> ":SOUR:CURR:COMP?",
     pre |-> <<>>, hdr |-> ":SOUR:CURR:COMP", fmt |-> "%g",
     validator |-> "truncated_range", range |-> <<PyFloat(1, -1), PyInt(105)>>,
     set |-> <<>>,
     toks |-> <<>>,
     map_values |-> FALSE, cast |-> "none", get_process |-> <<>>]

K6221_source_range ==
    [inst |-> "K6221", kind |-> "control", query |-> ":SOUR:CURR:RANG?",
     pre |-> <<[hdr |-> ":SOUR:CURR:RANG:AUTO", arg |-> "0"]>>, hdr |-> ":SOUR:CURR:RANG", fmt |-> "%g",
     validator |-> "truncated_range", range |-> <<PyFloat(-105, -3), PyFloat(105, -3)>>,
     set |-> <<>>,
     toks |-> <<>>,
     map_values |-> FALSE, cast |-> "none", get_process |-> <<>>]

K6221_source_auto_range ==
    [inst |-> "K6221", kind |-> "control", query |-> ":SOUR:CURR:RANG:AUTO?",
     pre |-> <<>>, hdr |-> ":SOUR:CURR:RANG:AUTO", fmt |-> "%d",
     validator |-> "none", range |-> <<>>,
     set |-> <<PyBool(TRUE), PyBool(FALSE)>>,
     toks |-> <<PyInt(1), PyInt(0)>>,
     map_values |-> TRUE, cast |-> "none", get_process |-> <<>>]

\* delta_unit declared without map_values.
K6221_delta_unit_unmapped ==
    [inst |-> "K6221", kind |-> "control", query |-> ":UNIT:VOLT:DC?",
     pre |-> <<>>, hdr |-> ":UNIT:VOLT:DC", fmt |-> "%s",
     validator |-> "strict_discrete_set", range |-> <<>>,
     set |-> <<PyStr("V"), PyStr("Ohms"), PyStr("W"), PyStr("Siemens")>>,
     toks |-> <<PyStr("V"), PyStr("OHMS"), PyStr("W"), PyStr("SIEM")>>,
     map_values |-> FALSE, cast |-> "none", get_process |-> <<>>]

K6221_delta_unit ==
    [inst |-> "K6221", kind |-> "control", query |-> ":UNIT:VOLT:DC?",
     pre |-> <<>>, hdr |-> ":UNIT:VOLT:DC", fmt |-> "%s",
     validator |-> "strict_discrete_set", range |-> <<>>,
     set |-> <<PyStr("V"), PyStr("Ohms"), PyStr("W"), PyStr("Siemens")>>,
     toks |-> <<PyStr("V"), PyStr("OHMS"), PyStr("W"), PyStr("SIEM")>>,
     map_values |-> TRUE, cast |-> "none", get_process |-> <<>>]

K6221_delta_high_source ==
    [inst |-> "K6221", kind |-> "control", query |-> ":SOUR:DELT:HIGH?",
     pre |-> <<>>, hdr |-> ":SOUR:DELT:HIGH", fmt |-> "%g",
     validator |-> "strict_range", range |-> <<PyInt(0), PyFloat(105, -3)>>,
     set |-> <<>>,
     toks |-> <<>>,
     map_values |-> FALSE, cast |-> "none", get_process |-> <<>>]

\* delta_low_source declared with truncated_range in place of strict_range.
K6221_delta_low_source_truncated ==
    [inst |-> "K6221", kind |-> "control", query |-> ":SOUR:DELT:LOW?",
     pre |-> <<>>, hdr |-> ":SOUR:DELT:LOW", fmt |-> "%g",
     validator |-> "truncated_range", range |-> <<PyFloat(-105, -3), PyInt(0)>>,
     set |-> <<>>,
     toks |-> <<>>,
     map_values |-> FALSE, cast |-> "none", get_process |-> <<>>]

K6221_delta_low_source ==
    [inst |-> "K6221", kind |-> "control", query |-> ":SOUR:DELT:LOW?",
     pre |-> <<>>, hdr |-> ":SOUR:DELT:LOW", fmt |-> "%g",
     validator |-> "strict_range", range |-> <<PyFloat(-105, -3), PyInt(0)>>,
     set |-> <<>>,
     toks |-> <<>>,
     map_values |-> FALSE, cast |-> "none", get_process |-> <<>>]

\* delta_delay declared with strict_range alone.
K6221_delta_delay_range_only ==
    [inst |-> "K6221", kind |-> "control", query |-> ":SOUR:DELT:DELay?",
     pre |-> <<>>, hdr |-> ":SOUR:DELT:DELay", fmt |-> "%s",
     validator |-> "strict_range", range |-> <<PyInt(0), PyFloat(9999999, -3)>>,
     set |-> <<PyStr("INF")>>,
     toks |-> <<>>,
     map_values |-> FALSE, cast |-> "none", get_process |-> <<>>]

K6221_delta_delay ==
    [inst |-> "K6221", kind |-> "control", query |-> ":SOUR:DELT:DELay?",
     pre |-> <<>>, hdr |-> ":SOUR:DELT:DELay", fmt |-> "%s",
     validator |-> "joined_validators", range |-> <<PyInt(0), PyFloat(9999999, -3)>>,
     set |-> <<PyStr("INF")>>,
     toks |-> <<>>,
     map_values |-> FALSE, cast |-> "none", get_process |-> <<>>]

K6221_delta_cycles ==
    [inst |-> "K6221", kind |-> "control", query |-> ":SOUR:DELT:COUN?",
     pre |-> <<>>, hdr |-> ":SOUR:DELT:COUN", fmt |-> "%s",
     validator |-> "joined_validators", range |-> <<PyInt(1), PyInt(65536)>>,
     set |-> <<PyStr("INF")>>,
     toks |-> <<>>,
     map_values |-> FALSE, cast |-> "none", get_process |-> <<>>]

K6221_delta_measurement_sets ==
    [inst |-> "K6221", kind |-> "control", query |-> ":SOUR:SWEep:COUN?",
     pre |-> <<>>, hdr |-> ":SOUR:SWEep:COUN", fmt |-> "%s",
     validator |-> "joined_validators", range |-> <<PyInt(1), PyInt(65536)>>,
     set |-> <<PyStr("INF")>>,
     toks |-> <<>>,
     map_values |-> FALSE, cast |-> "none", get_process |-> <<>>]

K6221_delta_compliance_abort_enabled ==
    [inst |-> "K6221", kind |-> "control", query |-> ":SOUR:DELT:CAB?",
     pre |-> <<>>, hdr |-> ":SOUR:DELT:CAB", fmt |-> "%s",
     validator |-> "none", range |-> <<>>,
     set |-> <<PyBool(TRUE), PyBool(FALSE)>>,
     toks |-> <<PyStr("ON"), PyStr("OFF")>>,
     map_values |-> TRUE, cast |-> "none", get_process |-> <<<<PyInt(1), PyStr("ON")>>, <<PyInt(0), PyStr("OFF")>>>>]

K6221_delta_cold_switch_enabled ==
    [inst |-> "K6221", kind |-> "control", query |-> ":SOUR:DELT:CSW?",
     pre |-> <<>>, hdr |-> ":SOUR:DELT:CSW", fmt |-> "%s",
     validator |-> "none", range |-> <<>>,
     set |-> <<PyBool(TRUE), PyBool(FALSE)>>,
     toks |-> <<PyStr("ON"), PyStr("OFF")>>,
     map_values |-> TRUE, cast |-> "none", get_process |-> <<<<PyInt(1), PyStr("ON")>>, <<PyInt(0), PyStr("OFF")>>>>]

K6221_delta_buffer_points ==
    [inst |-> "K6221", kind |-> "control", query |-> "TRAC:POIN?",
     pre |-> <<>>, hdr |-> "TRAC:POIN", fmt |-> "%d",
     validator |-> "strict_range", range |-> <<PyInt(1), PyInt(1000000)>>,
     set |-> <<>>,
     toks |-> <<>>,
     map_values |-> FALSE, cast |-> "none", get_process |-> <<>>]

K6221_delta_sense ==
    [inst |-> "K6221", kind |-> "measurement", query |-> ":SENS:DATA?",
     pre |-> <<>>, hdr |-> "", fmt |-> "",
     validator |-> "none", range |-> <<>>,
     set |-> <<>>,
     toks |-> <<>>,
     map_values |-> FALSE, cast |-> "none", get_process |-> <<>>]

K6221_delta_values ==
    [inst |-> "K6221", kind |-> "measurement", query |-> ":TRAC:DATA?",
     pre |-> <<>>, hdr |-> "", fmt |-> "",
     validator |-> "none", range |-> <<>>,
     set |-> <<>>,
     toks |-> <<>>,
     map_values |-> FALSE, cast |-> "none", get_process |-> <<>>]

K6221_delta_connected ==
    [inst |-> "K6221", kind |-> "measurement", query |-> ":SOUR:DELT:NVPR?",
     pre |-> <<>>, hdr |-> "", fmt |-> "",
     validator |-> "none", range |-> <<>>,
     set |-> <<>>,
     toks |-> <<>>,
     map_values |-> FALSE, cast |-> "bool", get_process |-> <<>>]

\* waveform_function with "ramp" mapped to the token of "sine".
K6221_waveform_function_shared_token ==
    [inst |-> "K6221", kind |-> "control", query |-> ":SOUR:WAVE:FUNC?",
     pre |-> <<>>, hdr |-> ":SOUR:WAVE:FUNC", fmt |-> "%s",
     validator |-> "none", range |-> <<>>,
     set |-> <<PyStr("sine"), PyStr("ramp"), PyStr("square"), PyStr("arbitrary1"), PyStr("arbitrary2"), PyStr("arbitrary3"), PyStr("arbitrary4")>>,
     toks |-> <<PyStr("SIN"), PyStr("SIN"), PyStr("SQU"), PyStr("ARB1"), PyStr("ARB2"), PyStr("ARB3"), PyStr("ARB4")>>,
     map_values |-> TRUE, cast |-> "none", get_process |-> <<>>]

K6221_waveform_function ==
    [inst |-> "K6221", kind |-> "control", query |-> ":SOUR:WAVE:FUNC?",
     pre |-> <<>>, hdr |-> ":SOUR:WAVE:FUNC", fmt |-> "%s",
     validator |-> "none", range |-> <<>>,
     set |-> <<PyStr("sine"), PyStr("ramp"), PyStr("square"), PyStr("arbitrary1"), PyStr("arbitrary2"), PyStr("arbitrary3"), PyStr("arbitrary4")>>,
     toks |-> <<PyStr("SIN"), PyStr("RAMP"), PyStr("SQU"), PyStr("ARB1"), PyStr("ARB2"), PyStr("ARB3"), PyStr("ARB4")>>,
     map_values |-> TRUE, cast |-> "none", get_process |-> <<>>]

K6221_waveform_frequency ==
    [inst |-> "K6221", kind |-> "control", query |-> ":SOUR:WAVE:FREQ?",
     pre |-> <<>>, hdr |-> ":SOUR:WAVE:FREQ", fmt |-> "%g",
     validator |-> "truncated_range", range |-> <<PyFloat(1, -3), PyFloat(1, 5)>>,
     set |-> <<>>,
     toks |-> <<>>,
     map_values |-> FALSE, cast |-> "none", get_process |-> <<>>]

K6221_waveform_amplitude ==
    [inst |-> "K6221", kind |-> "control", query |-> ":SOUR:WAVE:AMPL?",
     pre |-> <<>>, hdr |-> ":SOUR:WAVE:AMPL", fmt |-> "%g",
     validator |-> "truncated_range", range |-> <<PyFloat(2, -12), PyFloat(105, -3)>>,
     set |-> <<>>,
     toks |-> <<>>,
     map_values |-> FALSE, cast |-> "none", get_process |-> <<>>]

K6221_waveform_offset ==
    [inst |-> "K6221", kind |-> "control", query |-> ":SOUR:WAVE:OFFS?",
     pre |-> <<>>, hdr |-> ":SOUR:WAVE:OFFS", fmt |-> "%g",
     validator |-> "truncated_range", range |-> <<PyFloat(-105, -3), PyFloat(105, -3)>>,
     set |-> <<>>,
     toks |-> <<>>,
     map_values |-> FALSE, cast |-> "none", get_process |-> <<>>]

K6221_waveform_dutycycle ==
    [inst |-> "K6221", kind |-> "control", query |-> ":SOUR:WAVE:DCYC?",
     pre |-> <<>>, hdr |-> ":SOUR:WAVE:DCYC", fmt |-> "%g",
     validator |-> "truncated_range", range |-> <<PyInt(0), PyInt(100)>>,
     set |-> <<>>,
     toks |-> <<>>,
     map_values |-> FALSE, cast |-> "none", get_process |-> <<>>]

K6221_waveform_duration_time ==
    [inst |-> "K6221", kind |-> "control", query |-> ":SOUR:WAVE:DUR:TIME?",
     pre |-> <<>>, hdr |-> ":SOUR:WAVE:DUR:TIME", fmt |-> "%g",
     validator |-> "truncated_range", range |-> <<PyFloat(1, -7), PyFloat(999999999, -3)>>,
     set |-> <<>>,
     toks |-> <<>>,
     map_values |-> FALSE, cast |-> "none", get_process |-> <<>>]

K6221_waveform_duration_cycles ==
    [inst |-> "K6221", kind |-> "control", query |-> ":SOUR:WAVE:DUR:CYCL?",
     pre |-> <<>>, hdr |-> ":SOUR:WAVE:DUR:CYCL", fmt |-> "%g",
     validator |-> "truncated_range", range |-> <<PyFloat(1, -3), PyIntE(999999999, 2)>>,
     set |-> <<>>,
     toks |-> <<>>,
     map_values |-> FALSE, cast |-> "none", get_process |-> <<>>]

K6221_waveform_ranging ==
    [inst |-> "K6221", kind |-> "control", query |-> ":SOUR:WAVE:RANG?",
     pre |-> <<>>, hdr |-> ":SOUR:WAVE:RANG", fmt |-> "%s",
     validator |-> "none", range |-> <<>>,
     set |-> <<PyStr("best"), PyStr("fixed")>>,
     toks |-> <<PyStr("BEST"), PyStr("FIX")>>,
     map_values |-> TRUE, cast |-> "none", get_process |-> <<>>]

K6221_waveform_use_phasemarker ==
    [inst |-> "K6221", kind |-> "control", query |-> ":SOUR:WAVE:PMAR:STAT?",
     pre |-> <<>>, hdr |-> ":SOUR:WAVE:PMAR:STAT", fmt |-> "%s",
     validator |-> "none", range |-> <<>>,
     set |-> <<PyBool(TRUE), PyBool(FALSE)>>,
     toks |-> <<PyInt(1), PyInt(0)>>,
     map_values |-> TRUE, cast |-> "none", get_process |-> <<>>]

K6221_waveform_phasemarker_phase ==
    [inst |-> "K6221", kind |-> "control", query |-> ":SOUR:WAVE:PMAR?",
     pre |-> <<>>, hdr |-> ":SOUR:WAVE:PMAR", fmt |-> "%g",
     validator |-> "truncated_range", range |-> <<PyInt(-180), PyInt(180)>>,
     set |-> <<>>,
     toks |-> <<>>,
     map_values |-> FALSE, cast |-> "none", get_process |-> <<>>]

K6221_waveform_phasemarker_line ==
    [inst |-> "K6221", kind |-> "control", query |-> ":SOUR:WAVE:PMAR:OLIN?",
     pre |-> <<>>, hdr |-> ":SOUR:WAVE:PMAR:OLIN", fmt |-> "%d",
     validator |-> "truncated_range", range |-> <<PyInt(1), PyInt(6)>>,
     set |-> <<>>,
     toks |-> <<>>,
     map_values |-> FALSE, cast |-> "none", get_process |-> <<>>]

K6221_display_enabled ==
    [inst |-> "K6221", kind |-> "control", query |-> ":DISP:ENAB?",
     pre |-> <<>>, hdr |-> ":DISP:ENAB", fmt |-> "%d",
     validator |-> "none", range |-> <<>>,
     set |-> <<PyBool(TRUE), PyBool(FALSE)>>,
     toks |-> <<PyInt(1), PyInt(0)>>,
     map_values |-> TRUE, cast |-> "none", get_process |-> <<>>]

K6221_measurement_event_enabled ==
    [inst |-> "K6221", kind |-> "control", query |-> ":STAT:MEAS:ENAB?",
     pre |-> <<>>, hdr |-> ":STAT:MEAS:ENAB", fmt |-> "%d",
     validator |-> "truncated_range", range |-> <<PyInt(0), PyInt(65535)>>,
     set |-> <<>>,
     toks |-> <<>>,
     map_values |-> FALSE, cast |-> "int", get_process |-> <<>>]

K6221_operation_event_enabled ==
    [inst |-> "K6221", kind |-> "control", query |-> ":STAT:OPER:ENAB?",
     pre |-> <<>>, hdr |-> ":STAT:OPER:ENAB", fmt |-> "%d",
     validator |-> "truncated_range", range |-> <<PyInt(0), PyInt(65535)>>,
     set |-> <<>>,
     toks |-> <<>>,
     map_values |-> FALSE, cast |-> "int", get_process |-> <<>>]

K6221_questionable_event_enabled ==
    [inst |-> "K6221", kind |-> "control", query |-> ":STAT:QUES:ENAB?",
     pre |-> <<>>, hdr |-> ":STAT:QUES:ENAB", fmt |-> "%d",
     validator |-> "truncated_range", range |-> <<PyInt(0), PyInt(65535)>>,
     set |-> <<>>,
     toks |-> <<>>,
     map_values |-> FALSE, cast |-> "int", get_process |-> <<>>]

K6221_standard_event_enabled ==
    [inst |-> "K6221", kind |-> "control", query |-> "ESE?",
     pre |-> <<>>, hdr |-> "ESE", fmt |-> "%d",
     validator |-> "truncated_range", range |-> <<PyInt(0), PyInt(65535)>>,
     set |-> <<>>,
     toks |-> <<>>,
     map_values |-> FALSE, cast |-> "int", get_process |-> <<>>]

K6221_srq_event_enabled ==
    [inst |-> "K6221", kind |-> "control", query |-> "*SRE?",
     pre |-> <<>>, hdr |-> "*SRE", fmt |-> "%d",
     validator |-> "truncated_range", range |-> <<PyInt(0), PyInt(255)>>,
     set |-> <<>>,
     toks |-> <<>>,
     map_values |-> FALSE, cast |-> "int", get_process |-> <<>>]

\* measurement_events declared with Instrument.control.
K6221_measurement_events_as_control ==
    [inst |-> "K6221", kind |-> "control", query |-> ":STAT:MEAS?",
     pre |-> <<>>, hdr |-> ":STAT:MEAS", fmt |-> "%d",
     validator |-> "none", range |-> <<>>,
     set |-> <<>>,
     toks |-> <<>>,
     map_values |-> FALSE, cast |-> "int", get_process |-> <<>>]

K6221_measurement_events ==
    [inst |-> "K6221", kind |-> "measurement", query |-> ":STAT:MEAS?",
     pre |-> <<>>, hdr |-> "", fmt |-> "",
     validator |-> "none", range |-> <<>>,
     set |-> <<>>,
     toks |-> <<>>,
     map_values |-> FALSE, cast |-> "int", get_process |-> <<>>]

\* operation_events declared without cast=int.
K6221_operation_events_uncast ==
    [inst |-> "K6221", kind |-> "measurement", query |-> ":STAT:OPER?",
     pre |-> <<>>, hdr |-> "", fmt |-> "",
     validator |-> "none", range |-> <<>>,
     set |-> <<>>,
     toks |-> <<>>,
     map_values |-> FALSE, cast |-> "none", get_process |-> <<>>]

K6221_operation_events ==
    [inst |-> "K6221", kind |-> "measurement", query |-> ":STAT:OPER?",
     pre |-> <<>>, hdr |-> "", fmt |-> "",
     validator |-> "none", range |-> <<>>,
     set |-> <<>>,
     toks |-> <<>>,
     map_values |-> FALSE, cast |-> "int", get_process |-> <<>>]

K6221_questionable_events ==
    [inst |-> "K6221", kind |-> "measurement", query |-> ":STAT:QUES?",
     pre |-> <<>>, hdr |-> "", fmt |-> "",
     validator |-> "none", range |-> <<>>,
     set |-> <<>>,
     toks |-> <<>>,
     map_values |-> FALSE, cast |-> "int", get_process |-> <<>>]

K6221_standard_events ==
    [inst |-> "K6221", kind |-> "measurement", query |-> "*ESR?",
     pre |-> <<>>, hdr |-> "", fmt |-> "",
     validator |-> "none", range |-> <<>>,
     set |-> <<>>,
     toks |-> <<>>,
     map_values |-> FALSE, cast |-> "int", get_process |-> <<>>]

Catalog ==
    ("K2450_source_mode" :> K2450_source_mode)
    @@ ("K2450_source_enabled" :> K2450_source_enabled)
    @@ ("K2450_current" :> K2450_current)
    @@ ("K2450_current_range" :> K2450_current_range)
    @@ ("K2450_current_nplc" :> K2450_current_nplc)
    @@ ("K2450_compliance_current" :> K2450_compliance_current)
    @@ ("K2450_source_current" :> K2450_source_current)
    @@ ("K2450_source_current_range" :> K2450_source_current_range)
    @@ ("K2450_source_current_delay" :> K2450_source_current_delay)
    @@ ("K2450_source_current_delay_auto" :> K2450_source_current_delay_auto)
    @@ ("K2450_voltage" :> K2450_voltage)
    @@ ("K2450_voltage_range" :> K2450_voltage_range)
    @@ ("K2450_voltage_nplc" :> K2450_voltage_nplc)
    @@ ("K2450_compliance_voltage" :> K2450_compliance_voltage)
    @@ ("K2450_source_voltage" :> K2450_source_voltage)
    @@ ("K2450_source_voltage_range" :> K2450_source_voltage_range)
    @@ ("K2450_source_voltage_delay" :> K2450_source_voltage_delay)
    @@ ("K2450_source_voltage_delay_auto" :> K2450_source_voltage_delay_auto)
    @@ ("K2450_resistance" :> K2450_resistance)
    @@ ("K2450_resistance_range" :> K2450_resistance_range)
    @@ ("K2450_resistance_nplc" :> K2450_resistance_nplc)
    @@ ("K2450_wires" :> K2450_wires)
    @@ ("K2450_buffer_points" :> K2450_buffer_points)
    @@ ("K2450_means" :> K2450_means)
    @@ ("K2450_maximums" :> K2450_maximums)
    @@ ("K2450_minimums" :> K2450_minimums)
    @@ ("K2450_standard_devs" :> K2450_standard_devs)
    @@ ("K2450_current_filter_type" :> K2450_current_filter_type)
    @@ ("K2450_current_filter_count" :> K2450_current_filter_count)
    @@ ("K2450_current_filter_state" :> K2450_current_filter_state)
    @@ ("K2450_voltage_filter_type" :> K2450_voltage_filter_type)
    @@ ("K2450_voltage_filter_count" :> K2450_voltage_filter_count)
    @@ ("K2450_current_output_off_state" :> K2450_current_output_off_state)
    @@ ("K2450_voltage_output_off_state" :> K2450_voltage_output_off_state)
    @@ ("K6221_source_enabled" :> K6221_source_enabled)
    @@ ("K6221_shield_to_guard_enabled" :> K6221_shield_to_guard_enabled)
    @@ ("K6221_source_delay" :> K6221_source_delay)
    @@ ("K6221_output_low_grounded" :> K6221_output_low_grounded)
    @@ ("K6221_source_current" :> K6221_source_current)
    @@ ("K6221_source_compliance" :> K6221_source_compliance)
    @@ ("K6221_source_range" :> K6221_source_range)
    @@ ("K6221_source_auto_range" :> K6221_source_auto_range)
    @@ ("K6221_delta_unit" :> K6221_delta_unit)
    @@ ("K6221_delta_high_source" :> K6221_delta_high_source)
    @@ ("K6221_delta_low_source" :> K6221_delta_low_source)
    @@ ("K6221_delta_delay" :> K6221_delta_delay)
    @@ ("K6221_delta_cycles" :> K6221_delta_cycles)
    @@ ("K6221_delta_measurement_sets" :> K6221_delta_measurement_sets)
    @@ ("K6221_delta_compliance_abort_enabled" :> K6221_delta_compliance_abort_enabled)
    @@ ("K6221_delta_cold_switch_enabled" :> K6221_delta_cold_switch_enabled)
    @@ ("K6221_delta_buffer_points" :> K6221_delta_buffer_points)
    @@ ("K6221_delta_sense" :> K6221_delta_sense)
    @@ ("K6221_delta_values" :> K6221_delta_values)
    @@ ("K6221_delta_connected" :> K6221_delta_connected)
    @@ ("K6221_waveform_function" :> K6221_waveform_function)
    @@ ("K6221_waveform_frequency" :> K6221_waveform_frequency)
    @@ ("K6221_waveform_amplitude" :> K6221_waveform_amplitude)
    @@ ("K6221_waveform_offset" :> K6221_waveform_offset)
    @@ ("K6221_waveform_dutycycle" :> K6221_waveform_dutycycle)
    @@ ("K6221_waveform_duration_time" :> K6221_waveform_duration_time)
    @@ ("K6221_waveform_duration_cycles" :> K6221_waveform_duration_cycles)
    @@ ("K6221_waveform_ranging" :> K6221_waveform_ranging)
    @@ ("K6221_waveform_use_phasemarker" :> K6221_waveform_use_phasemarker)
    @@ ("K6221_waveform_phasemarker_phase" :> K6221_waveform_phasemarker_phase)
    @@ ("K6221_waveform_phasemarker_line" :> K6221_waveform_phasemarker_line)
    @@ ("K6221_display_enabled" :> K6221_display_enabled)
    @@ ("K6221_measurement_event_enabled" :> K6221_measurement_event_enabled)
    @@ ("K6221_operation_event_enabled" :> K6221_operation_event_enabled)
    @@ ("K6221_questionable_event_enabled" :> K6221_questionable_event_enabled)
    @@ ("K6221_standard_event_enabled" :> K6221_standard_event_enabled)
    @@ ("K6221_srq_event_enabled" :> K6221_srq_event_enabled)
    @@ ("K6221_measurement_events" :> K6221_measurement_events)
    @@ ("K6221_operation_events" :> K6221_operation_events)
    @@ ("K6221_questionable_events" :> K6221_questionable_events)
    @@ ("K6221_standard_events" :> K6221_standard_events)

Props == DOMAIN Catalog

-----------------------------------------------------------------------------
(* Validators.  Each returns [ok, val, err]: the value handed on, or the   *)
(* error raised.                                                           *)

Accept(v)    == [ok |-> TRUE, val |-> v, err |-> ""]
Reject(err)  == [ok |-> FALSE, val |-> PyNone, err |-> err]

\* Clamps the value into [low, high]; a value that is no number cannot be
\* compared with the bounds.
truncated_range(value, values) ==
    IF ~IsNumber(value) THEN Reject("TypeError")
    ELSE IF NumLeq(values[1], value) /\ NumLeq(value, values[2]) THEN Accept(value)
    ELSE IF NumLess(values[2], value) THEN Accept(values[2])
    ELSE Accept(values[1])

\* Passes a value of [low, high] through, rejects any other.
strict_range(value, values) ==
    IF ~IsNumber(value) THEN Reject("TypeError")
    ELSE IF NumLeq(values[1], value) /\ NumLeq(value, values[2]) THEN Accept(value)
    ELSE Reject("ValidationError")

\* value in values, by Python's ==.
Member(value, values) == \E i \in 1..Len(values) : PyEq(values[i], value)

\* Passes a member of the set (the keys of a value map) through.
strict_discrete_set(value, values) ==
    IF Member(value, values) THEN Accept(value) ELSE Reject("ValidationError")

FirstThatAccepts(first, second) ==
    IF first.ok THEN first
    ELSE IF second.ok THEN second
    ELSE Reject("ValidationError")

\* The first validator with the first domain; if it fails, the second with
\* the second domain; fails only if both do.
joined_validators(value, range, set) ==
    FirstThatAccepts(strict_range(value, range), strict_discrete_set(value, set))

\* The validator a property declares, applied to the domain it declares;
\* a property that declares none passes every value through.
Validate(c, value) ==
    CASE c.validator = "truncated_range"     -> truncated_range(value, c.range)
      [] c.validator = "strict_range"        -> strict_range(value, c.range)
      [] c.validator = "strict_discrete_set" -> strict_discrete_set(value, c.set)
      [] c.validator = "joined_validators"   -> joined_validators(value, c.range, c.set)
      [] OTHER                               -> Accept(value)

\* User value -> wire token of a value map (values[value]).
MapSet(c, value) ==
    IF Member(value, c.set)
    THEN Accept(c.toks[CHOOSE i \in 1..Len(c.set) : PyEq(c.set[i], value)])
    ELSE Reject("MappingError")

\* Wire token -> user value: the first key whose token equals the reply.
MapGet(c, value) ==
    IF Member(value, c.toks)
    THEN Accept(c.set[CHOOSE i \in 1..Len(c.toks) :
                        /\ PyEq(c.toks[i], value)
                        /\ \A j \in 1..(i - 1) : ~PyEq(c.toks[j], value)])
    ELSE Reject("MappingError")

\* template % value: the conversion the write template names.
Format(fmt, value) ==
    IF fmt = "%s" THEN [ok |-> TRUE, tok |-> FormatS(value), err |-> ""]
    ELSE IF ~IsNumber(value) THEN [ok |-> FALSE, tok |-> Word(""), err |-> "TypeError"]
    ELSE [ok |-> TRUE, tok |-> IF fmt = "%g" THEN FormatG(value) ELSE FormatD(value),
          err |-> ""]

-----------------------------------------------------------------------------
(* Messages.  A message is the sequence of device commands one write or    *)
(* ask hands to the adapter, each a header and the text of its argument;   *)
(* Render is the string on the wire.                                       *)

Cmd(hdr, tok) == [hdr |-> hdr, tok |-> tok]

Msg(kind, cmds) == [kind |-> kind, cmds |-> cmds]

RenderCmd(c) == IF c.tok.text = "" THEN c.hdr ELSE c.hdr \o " " \o c.tok.text

RECURSIVE RenderCmds(_)
RenderCmds(cmds) ==
    IF Len(cmds) = 0 THEN ""
    ELSE IF Len(cmds) = 1 THEN RenderCmd(cmds[1])
    ELSE RenderCmd(cmds[1]) \o ";" \o RenderCmds(Tail(cmds))

Render(msg) == RenderCmds(msg.cmds)

\* The literal commands a write template holds before its placeholder.
Literal(pre) ==
    [i \in 1..Len(pre) |->
        Cmd(pre[i].hdr, Token(pre[i].arg, IF pre[i].arg = "0" THEN PyInt(0)
                                          ELSE PyStr(pre[i].arg)))]

\* The write message of a property: the template with the token filled in.
WriteMsg(c, tok) == Msg("write", Literal(c.pre) \o <<Cmd(c.hdr, tok)>>)

AskMsg(query) == Msg("ask", <<Cmd(query, Word(""))>>)

-----------------------------------------------------------------------------
(* The set path of a property: validate, map, format, write.               *)

Outcome(kind, val) == [kind |-> kind, val |-> val]

\* [msgs |-> the messages written, res |-> what the set returns or raises]
Raises(err) == [msgs |-> <<>>, res |-> Outcome(err, PyNone)]

\* The formatted value goes out in the write template.
SetFormatted(c, formatted) ==
    IF ~formatted.ok THEN Raises(formatted.err)
    ELSE [msgs |-> <<WriteMsg(c, formatted.tok)>>, res |-> Outcome("ok", PyNone)]

\* The mapped value is formatted.
SetMapped(c, mapped) ==
    IF ~mapped.ok THEN Raises(mapped.err)
    ELSE SetFormatted(c, Format(c.fmt, mapped.val))

\* The validated value is mapped when the property maps its values.
SetValidated(c, validated) ==
    IF ~validated.ok THEN Raises(validated.err)
    ELSE IF c.map_values THEN SetMapped(c, MapSet(c, validated.val))
    ELSE SetMapped(c, validated)

SetPath(c, value) ==
    IF c.kind = "measurement" THEN Raises("ReadOnlyError")
    ELSE SetValidated(c, Validate(c, value))

-----------------------------------------------------------------------------
(* The get path of a property: ask, parse, cast, get_process, map.         *)

\* The value a reply token parses to: a numeral reads as a float, any
\* other text stays a string; a declared cast must succeed.
Parse(cast, tok) ==
    CASE cast = "none" ->
            Accept(IF tok.val.k = "int" THEN [tok.val EXCEPT !.k = "float"] ELSE tok.val)
      [] cast = "int" ->
            IF tok.val.k = "int" THEN Accept(tok.val) ELSE Reject("ParseError")
      [] cast = "bool" ->
            IF tok.val.k \in {"int", "float"} THEN Accept(PyBool(tok.val.m # 0))
            ELSE IF tok.val.k = "inf" THEN Accept(PyBool(TRUE))
            ELSE Reject("ParseError")

\* get_process of a property that declares one: dict.get, None for a value
\* that is no key.
GetProcess(c, value) ==
    IF Len(c.get_process) = 0 THEN value
    ELSE IF \E i \in 1..Len(c.get_process) : PyEq(c.get_process[i][1], value)
    THEN c.get_process[CHOOSE i \in 1..Len(c.get_process) :
                         PyEq(c.get_process[i][1], value)][2]
    ELSE PyNone

\* What a get returns or raises on the reply token.
Returns(mapped) ==
    IF ~mapped.ok THEN Outcome(mapped.err, PyNone) ELSE Outcome("ok", mapped.val)

\* The processed value is mapped back when the property maps its values.
GetProcessed(c, value) ==
    IF c.map_values THEN Returns(MapGet(c, value)) ELSE Returns(Accept(value))

\* The parsed reply goes through get_process.
GetParsed(c, parsed) ==
    IF ~parsed.ok THEN Outcome(parsed.err, PyNone)
    ELSE GetProcessed(c, GetProcess(c, parsed.val))

GetPath(c, tok) == GetParsed(c, Parse(c.cast, tok))

-----------------------------------------------------------------------------
(* The device: a register per query, answering with the token last written *)
(* to it.                                                                  *)

\* The headers the catalogue's write templates hold.
Headers ==
    {Catalog[p].hdr : p \in {q \in Props : Catalog[q].kind = "control"}}
    \cup UNION {{Catalog[p].pre[i].hdr : i \in 1..Len(Catalog[p].pre)} : p \in Props}

\* The query that reads back what a command header writes: the one the
\* catalogue pairs the header with, else the header with '?'.
HeaderQuery ==
    [h \in Headers |->
        IF \E p \in Props : Catalog[p].hdr = h
        THEN Catalog[CHOOSE p \in Props : Catalog[p].hdr = h].query
        ELSE h \o "?"]

Register(hdr) == IF hdr \in DOMAIN HeaderQuery THEN HeaderQuery[hdr] ELSE hdr \o "?"

\* The registers a property's own commands read and write.
PropRegisters(p) ==
    {Catalog[p].query}
    \cup {Register(Catalog[p].pre[i].hdr) : i \in 1..Len(Catalog[p].pre)}

\* The registers after the device has taken the commands of a message, in
\* order (d holds the registers the session observes).
\* Register r takes the token when it is one of those d holds.
Store(d, r, tok) == IF r \in DOMAIN d THEN [d EXCEPT ![r] = <<tok>>] ELSE d

RECURSIVE DeliverCmds(_, _)
DeliverCmds(d, cmds) ==
    IF Len(cmds) = 0 THEN d
    ELSE DeliverCmds(Store(d, Register(Head(cmds).hdr), Head(cmds).tok), Tail(cmds))

Deliver(d, msg) == DeliverCmds(d, msg.cmds)

\* The registers after the messages, in order; a device without registers
\* takes none.
RECURSIVE DeliverAll(_, _)
DeliverAll(d, msgs) ==
    IF Len(msgs) = 0 \/ DOMAIN d = {} THEN d
    ELSE DeliverAll(Deliver(d, Head(msgs)), Tail(msgs))

\* What the get of a property returns on the device's reply: one value, or
\* the list of the values of a reply of several.
PyList(items) == [k |-> "list", m |-> 0, e |-> 0, s |-> "", items |-> items]

GetReply(c, reply) ==
    IF Len(reply) = 1 THEN GetPath(c, reply[1])
    ELSE IF \E i \in 1..Len(reply) : ~Parse(c.cast, reply[i]).ok
    THEN Outcome("ParseError", PyNone)
    ELSE Outcome("ok", PyList([i \in 1..Len(reply) |-> Parse(c.cast, reply[i]).val]))

-----------------------------------------------------------------------------
(* The values a caller passes and the replies a device starts with.        *)



CommonInts ==
    {PyIntE(-1, 12), PyInt(-1), PyInt(0), PyInt(1), PyInt(5000), PyIntE(1, 12)}

CommonFloats ==
    {PyFloat(-1, 12), PyFloat(5, -3), PyFloat(5000, 0), PyFloat(10000, 0),
     PyFloat(1, 12)}

CommonOthers == {PyStr("INF"), PyStr("inf"), PyBool(TRUE), PyBool(FALSE)}

SeqRange(q) == {q[i] : i \in 1..Len(q)}

\* The values a set of the property is tried with: the common ones (whole
\* numbers only for a %d template), the bounds, the members and the wire
\* tokens the property declares.
InputsFor(c) ==
    CommonInts \cup (IF c.fmt = "%d" THEN {} ELSE CommonFloats) \cup CommonOthers
    \cup SeqRange(c.range) \cup SeqRange(c.set) \cup SeqRange(c.toks)

InitTokens ==
    {Token("0", PyInt(0)), Token("1", PyInt(1)), Token("128", PyInt(128)), Word("abc")}

\* What op records of an operation: its name and argument and, of a ramp,
\* the number of steps, the pause, the write the adapter fails (0: none),
\* the value read and the reply the register held before.
NoOp ==
    [name |-> "init", arg |-> PyNone, steps |-> 0, pause |-> PyNone, failAt |-> 0,
     start |-> PyNone, before |-> <<>>]

-----------------------------------------------------------------------------
(* Property access.                                                        *)

Init ==
    /\ prop \in Props
    /\ \E t \in InitTokens : dev = [r \in PropRegisters(prop) |-> <<t>>]
    /\ sent = <<>>
    /\ result = Outcome("none", PyNone)
    /\ op = NoOp
    /\ last_set = PyNone
    /\ ramps = 0

\* instrument.<prop> = value
RunSet(value, r) ==
    /\ sent' = r.msgs
    /\ result' = r.res
    /\ dev' = DeliverAll(dev, r.msgs)
    /\ op' = [NoOp EXCEPT !.name = "set", !.arg = value]
    /\ last_set' = IF r.res.kind = "ok" THEN value ELSE last_set
    /\ UNCHANGED <<prop, ramps>>

PropertySet(value) == RunSet(value, SetPath(Catalog[prop], value))

\* A get that answers from the value last set instead of asking the device.
PropertyGetCached ==
    /\ sent' = IF last_set = PyNone THEN <<AskMsg(Catalog[prop].query)>> ELSE <<>>
    /\ result' = IF last_set = PyNone
                 THEN GetReply(Catalog[prop], dev[Catalog[prop].query])
                 ELSE Outcome("ok", last_set)
    /\ op' = [NoOp EXCEPT !.name = "get"]
    /\ UNCHANGED <<prop, dev, last_set, ramps>>

\* instrument.<prop>
PropertyGet ==
    /\ sent' = <<AskMsg(Catalog[prop].query)>>
    /\ result' = GetReply(Catalog[prop], dev[Catalog[prop].query])
    /\ op' = [NoOp EXCEPT !.name = "get"]
    /\ UNCHANGED <<prop, dev, last_set, ramps>>

Set == \E value \in InputsFor(Catalog[prop]) : PropertySet(value)

Get == PropertyGet

Next == Set \/ Get

Spec == Init /\ [][Next]_vars

-----------------------------------------------------------------------------
(* The ramps of the Keithley 2450.                                         *)

MaxSteps == 3

MaxRamps == 1

AsFloat(v) == Num("float", v.m, v.e)

\* The nine-digit quotient q of a point, and whether the point is exactly
\* q (exact) : a point that lies exactly half way between two numerals of six
\* significant digits is a binary float a little below or a little above
\* it, and '%g' prints the numeral on that side (tie = -1 or 1).
Nudged(q, exact, tie) ==
    IF exact /\ Digits(q) > 6 /\ q % Pow10(Digits(q) - 6) = 5 * Pow10(Digits(q) - 7)
    THEN q + tie ELSE q

\* |N| / div * 10^e, N being the numerator of a point over div = num - 1,
\* kept to nine significant digits (k more digits than N holds).
Quotient(N, div, e, k, tie) ==
    PyFloat((IF N < 0 THEN -1 ELSE 1)
              * Nudged((Abs(N) * Pow10(k)) \div div, (Abs(N) * Pow10(k)) % div = 0, tie),
            e - k)

\* (S * div + i * (T - S)) / div * 10^e: start + i * step for start = S * 10^e
\* and stop = T * 10^e.
Between(S, T, e, div, i, tie) ==
    Quotient(S * div + i * (T - S), div, e,
             IF Digits(Abs(S * div + i * (T - S))) < 9
             THEN 9 - Digits(Abs(S * div + i * (T - S))) ELSE 0,
             tie)

\* On the exponent e both bounds are whole multiples of.
Aligned(start, stop, e, div, i, tie) ==
    Between(start.m * Pow10(start.e - e), stop.m * Pow10(stop.e - e), e, div, i, tie)

\* Point i (from 0) of np.linspace(start, stop, num): start + i * step with
\* step = (stop - start) / (num - 1), the last point being stop itself.
LinPoint(start, stop, num, i, tie) ==
    IF num > 1 /\ i = num - 1 THEN AsFloat(stop)
    ELSE IF i = 0 THEN AsFloat(start)
    ELSE Aligned(start, stop, IF start.e < stop.e THEN start.e ELSE stop.e,
                 num - 1, i, tie)

\* np.linspace(start, stop, num): num points, none when num = 0, start
\* alone when num = 1.
linspace(start, stop, num, tie) ==
    [i \in 1..num |-> LinPoint(start, stop, num, i - 1, tie)]

\* The loop ends: on the messages of its last pass, delivered or not, with
\* what it returns or raises.
Stop(msgs, ok, res) ==
    [msgs |-> msgs, delivered |-> IF ok THEN msgs ELSE <<>>, res |-> res]

\* The messages of one pass of the loop, delivered or not, followed by what
\* the rest of the loop does.
Then(msgs, ok, rest) ==
    [msgs |-> msgs \o rest.msgs,
     delivered |-> (IF ok THEN msgs ELSE <<>>) \o rest.delivered,
     res |-> rest.res]

\* One pass of the loop: self.<source> = value; time.sleep(pause), `set`
\* being what the set of the point sends and returns.  The pass raises
\* what the set path raises, or the adapter's error when its write is the
\* one the adapter fails; sleep raises on a negative pause.  msgs are the
\* messages handed to the adapter, delivered those the device received.
RampPass(set, fails, pause) ==
    IF set.res.kind # "ok" THEN Stop(<<>>, FALSE, set.res)
    ELSE IF fails THEN Stop(set.msgs, FALSE, Outcome("AdapterError", PyNone))
    ELSE IF pause.m < 0 THEN Stop(set.msgs, TRUE, Outcome("ValueError", PyNone))
    ELSE Stop(set.msgs, TRUE, Outcome("ok", PyNone))

\* Passes in order: the later ones run only when the earlier ones returned.
Both(first, rest) ==
    IF first.res.kind # "ok" THEN first ELSE Then(first.msgs, TRUE, rest)

\* The passes lo..hi of the loop, in order (the span is halved, so that a
\* loop of many passes is evaluated at a small depth).
RECURSIVE RampPasses(_, _, _, _, _)
RampPasses(sets, lo, hi, pause, failAt) ==
    IF lo > hi THEN Stop(<<>>, TRUE, Outcome("ok", PyNone))
    ELSE IF lo = hi THEN RampPass(sets[lo], lo = failAt, pause)
    ELSE Both(RampPasses(sets, lo, (lo + hi) \div 2, pause, failAt),
              RampPasses(sets, (lo + hi) \div 2 + 1, hi, pause, failAt))

\* The loop of a ramp that carries on after a write the adapter failed.
RECURSIVE RampLoopContinuing(_, _, _, _)
RampLoopContinuing(sets, i, pause, failAt) ==
    IF i > Len(sets)
    THEN Stop(<<>>, TRUE, Outcome(IF failAt \in 1..Len(sets) THEN "AdapterError"
                                  ELSE "ok", PyNone))
    ELSE Then(sets[i].msgs, i # failAt, RampLoopContinuing(sets, i + 1, pause, failAt))

\* for value in points: self.<source> = value; time.sleep(pause), from
\* point i on.
RampLoop(sets, i, pause, failAt) == RampPasses(sets, i, Len(sets), pause, failAt)

\* What the set of each point sends and returns.
PointSets(c, points) == [i \in 1..Len(points) |-> SetPath(c, points[i])]

\* A ramp that has read the source level and run its loop.
Ramped(c, start, loop) ==
    [msgs |-> <<AskMsg(c.query)>> \o loop.msgs, delivered |-> loop.delivered,
     res |-> loop.res, start |-> start]

\* The ramp once the get of the source level has returned or raised `read`:
\* np.linspace takes numbers only.
RampFrom(c, read, target, steps, pause, failAt, tie) ==
    IF read.kind # "ok" THEN Ramped(c, PyNone, Stop(<<>>, FALSE, read))
    ELSE IF ~IsNumber(read.val) \/ ~IsNumber(target)
    THEN Ramped(c, read.val, Stop(<<>>, FALSE, Outcome("TypeError", PyNone)))
    ELSE Ramped(c, read.val,
                RampLoop(PointSets(c, linspace(read.val, target, steps, tie)), 1,
                         pause, failAt))

\* The body both ramps share: read the source level through the property,
\* interpolate, set every point through the property.
Ramp(c, d, target, steps, pause, failAt, tie) ==
    RampFrom(c, GetReply(c, d[c.query]), target, steps, pause, failAt, tie)

ramp_to_current(d, target_current, steps, pause, failAt, tie) ==
    Ramp(K2450_source_current, d, target_current, steps, pause, failAt, tie)

ramp_to_voltage(d, target_voltage, steps, pause, failAt, tie) ==
    Ramp(K2450_source_voltage, d, target_voltage, steps, pause, failAt, tie)

RampProps == {"K2450_source_current", "K2450_source_voltage"}

RampTokens == {Token("0", PyInt(0)), Token("0.005", PyFloat(5, -3)), Word("abc")}

RampTargets == {PyFloat(5, -3), PyFloat(-2, -3)}

Pauses == {PyFloat(2, -2), PyInt(-1)}

Ties == {-1, 1}

InitRamp ==
    /\ prop \in RampProps
    /\ dev \in [{Catalog[p].query : p \in RampProps} -> {<<t>> : t \in RampTokens}]
    /\ sent = <<>>
    /\ result = Outcome("none", PyNone)
    /\ op = NoOp
    /\ last_set = PyNone
    /\ ramps = 0

\* One run of a ramp method, r being what it does on the device as it is.
RunRamp(name, c, r, target, steps, pause, failAt) ==
    /\ ramps < MaxRamps
    /\ sent' = r.msgs
    /\ result' = r.res
    /\ dev' = DeliverAll(dev, r.delivered)
    /\ op' = [name |-> name, arg |-> target, steps |-> steps, pause |-> pause,
              failAt |-> failAt, start |-> r.start, before |-> dev[c.query]]
    /\ ramps' = ramps + 1
    /\ UNCHANGED <<prop, last_set>>

\* instrument.ramp_to_current(target, steps, pause)
RampToCurrent ==
    \E target \in RampTargets, steps \in 0..MaxSteps, pause \in Pauses :
      \E failAt \in 0..steps, tie \in Ties :
        RunRamp("ramp_to_current", K2450_source_current,
                ramp_to_current(dev, target, steps, pause, failAt, tie),
                target, steps, pause, failAt)

\* instrument.ramp_to_voltage(target, steps, pause)
RampToVoltage ==
    \E target \in RampTargets, steps \in 0..MaxSteps, pause \in Pauses :
      \E failAt \in 0..steps, tie \in Ties :
        RunRamp("ramp_to_voltage", K2450_source_voltage,
                ramp_to_voltage(dev, target, steps, pause, failAt, tie),
                target, steps, pause, failAt)

NextRamp == RampToCurrent \/ RampToVoltage \/ Get

SpecRamp == InitRamp /\ [][NextRamp]_vars

-----------------------------------------------------------------------------
(* The methods of both drivers.  A method is the sequence of its steps:    *)
(* writes, property accesses and calls of collaborators, each             *)
(* [msgs |-> what it hands to the adapter, res |-> what it returns or      *)
(* raises]; the first step that raises ends the method.                    *)

\* '%.<prec>f' % v: v rounded to prec decimals, all of them printed.  A v
\* that lies exactly half way between two such numerals is a binary float a
\* little below or above it (tie = -1 or 1).
RoundedTo(q, r, half, tie) ==
    IF r > half \/ (r = half /\ tie > 0) THEN q + 1 ELSE q

\* |v| * 10^prec, rounded to a whole number.
Scaled(v, prec, tie) ==
    IF v.e + prec >= 0 THEN Abs(v.m) * Pow10(v.e + prec)
    ELSE RoundedTo(Abs(v.m) \div Pow10(-(v.e + prec)), Abs(v.m) % Pow10(-(v.e + prec)),
                   5 * Pow10(-(v.e + prec) - 1), tie)

FixedPointText(v, q, prec) ==
    Token(Sign(v) \o NatStr(q \div Pow10(prec)) \o "." \o PadNat(q % Pow10(prec), prec),
          PyFloat(IF v.m < 0 THEN -q ELSE q, -prec))

FixedPoint(v, prec, tie) == FixedPointText(v, Scaled(v, prec, tie), prec)

\* '%f' % v
FormatF(v, tie) == FixedPoint(v, 6, tie)

\* A call of a collaborator (check_errors, stop_buffer, the base shutdown),
\* recorded among the messages in the order it is made.
Call(name) == Msg("call", <<Cmd(name, Word(""))>>)

\* self.write(text) of a literal command string; a string that ends with
\* ';' holds an empty last command.
Write(cmds) == [msgs |-> <<Msg("write", cmds)>>, res |-> Outcome("ok", PyNone)]

NoCmd == Cmd("", Word(""))

Calls(name) == [msgs |-> <<Call(name)>>, res |-> Outcome("ok", PyNone)]

\* instrument.<property>, as a step of a method.
Asks(c, d) == [msgs |-> <<AskMsg(c.query)>>, res |-> GetReply(c, d[c.query])]

\* The messages of a step that returned, then the rest.
Before(step, rest) == [msgs |-> step.msgs \o rest.msgs, res |-> rest.res]

\* The steps in order, up to and including the first that raises.
RECURSIVE Chain(_)
Chain(steps) ==
    IF Len(steps) = 0 THEN [msgs |-> <<>>, res |-> Outcome("ok", PyNone)]
    ELSE IF Head(steps).res.kind # "ok" \/ Len(steps) = 1 THEN Head(steps)
    ELSE Before(Head(steps), Chain(Tail(steps)))

\* value[index] of what a get returned.
Item(res, index) ==
    IF res.kind # "ok" THEN res
    ELSE IF res.val.k # "list" THEN Outcome("TypeError", PyNone)
    ELSE IF index >= Len(res.val.items) THEN Outcome("IndexError", PyNone)
    ELSE Outcome("ok", res.val.items[index + 1])

\* The buffer statistics with mean_current reading element 2.
BufferStatisticsShifted ==
    [mean_voltage    |-> [list |-> K2450_means,         index |-> 0],
     max_voltage     |-> [list |-> K2450_maximums,      index |-> 0],
     min_voltage     |-> [list |-> K2450_minimums,      index |-> 0],
     std_voltage     |-> [list |-> K2450_standard_devs, index |-> 0],
     mean_current    |-> [list |-> K2450_means,         index |-> 2],
     max_current     |-> [list |-> K2450_maximums,      index |-> 1],
     min_current     |-> [list |-> K2450_minimums,      index |-> 1],
     std_current     |-> [list |-> K2450_standard_devs, index |-> 1],
     mean_resistance |-> [list |-> K2450_means,         index |-> 2],
     max_resistance  |-> [list |-> K2450_maximums,      index |-> 2],
     min_resistance  |-> [list |-> K2450_minimums,      index |-> 2],
     std_resistance  |-> [list |-> K2450_standard_devs, index |-> 2]]

\* The twelve buffer statistics of Keithley2450: the list property each
\* reads and the index it returns.
BufferStatistics ==
    [mean_voltage    |-> [list |-> K2450_means,         index |-> 0],
     max_voltage     |-> [list |-> K2450_maximums,      index |-> 0],
     min_voltage     |-> [list |-> K2450_minimums,      index |-> 0],
     std_voltage     |-> [list |-> K2450_standard_devs, index |-> 0],
     mean_current    |-> [list |-> K2450_means,         index |-> 1],
     max_current     |-> [list |-> K2450_maximums,      index |-> 1],
     min_current     |-> [list |-> K2450_minimums,      index |-> 1],
     std_current     |-> [list |-> K2450_standard_devs, index |-> 1],
     mean_resistance |-> [list |-> K2450_means,         index |-> 2],
     max_resistance  |-> [list |-> K2450_maximums,      index |-> 2],
     min_resistance  |-> [list |-> K2450_minimums,      index |-> 2],
     std_resistance  |-> [list |-> K2450_standard_devs, index |-> 2]]

\* return self.<list>[index]
Statistic(d, name) ==
    [msgs |-> <<AskMsg(BufferStatistics[name].list.query)>>,
     res |-> Item(GetReply(BufferStatistics[name].list,
                           d[BufferStatistics[name].list.query]),
                  BufferStatistics[name].index)]

\* A timed arm that refuses its two limits as well.
set_timed_arm_exclusive(interval, tie) ==
    IF ~NumLess(interval, PyFloat(9999999, -2)) \/ ~NumLess(PyFloat(1, -3), interval)
    THEN Raises("RangeException")
    ELSE Write(<<Cmd(":ARM:SOUR", Word("TIM")),
                 Cmd(":ARM:TIM", FixedPoint(interval, 3, tie))>>)

\* Keithley6221.set_timed_arm(interval)
set_timed_arm(interval, tie) ==
    IF NumLess(PyFloat(9999999, -2), interval) \/ NumLess(interval, PyFloat(1, -3))
    THEN Raises("RangeException")
    ELSE Write(<<Cmd(":ARM:SOUR", Word("TIM")),
                 Cmd(":ARM:TIM", FixedPoint(interval, 3, tie))>>)

\* A measure_* body that checks the errors before it sets the range.
MeasureCheckedEarly(func, range, nplc, value, auto_range, tie) ==
    Chain(<<Write(<<Cmd(":SENS:FUNC", Word("'" \o func \o "'")),
                    Cmd(":SENS:" \o func \o ":NPLC", FormatF(nplc, tie)), NoCmd>>),
            Calls("check_errors"),
            IF auto_range
            THEN Write(<<Cmd(":SENS:" \o func \o ":RANG:AUTO", Token("1", PyInt(1))), NoCmd>>)
            ELSE SetPath(range, value)>>)

\* The body the three measure_* methods share: the sense function with its
\* NPLC, then auto-range on or the range property, then check_errors.
Measure(func, range, nplc, value, auto_range, tie) ==
    Chain(<<Write(<<Cmd(":SENS:FUNC", Word("'" \o func \o "'")),
                    Cmd(":SENS:" \o func \o ":NPLC", FormatF(nplc, tie)), NoCmd>>),
            IF auto_range
            THEN Write(<<Cmd(":SENS:" \o func \o ":RANG:AUTO", Token("1", PyInt(1))), NoCmd>>)
            ELSE SetPath(range, value),
            Calls("check_errors")>>)

measure_resistance(nplc, resistance, auto_range, tie) ==
    Measure("RES", K2450_resistance_range, nplc, resistance, auto_range, tie)

\* A measure_voltage that sets the range of the current measurement.
measure_voltage_current_range(nplc, voltage, auto_range, tie) ==
    Measure("VOLT", K2450_current_range, nplc, voltage, auto_range, tie)

measure_voltage(nplc, voltage, auto_range, tie) ==
    Measure("VOLT", K2450_voltage_range, nplc, voltage, auto_range, tie)

measure_current(nplc, current, auto_range, tie) ==
    Measure("CURR", K2450_current_range, nplc, current, auto_range, tie)

\* The write of auto_range_source once the source mode has been read.
AutoRangeFor(read) ==
    IF read.res.kind # "ok" THEN read
    ELSE Chain(<<read,
                 IF read.res.val = PyStr("current")
                 THEN Write(<<Cmd(":SOUR:CURR:RANG:AUTO", Token("1", PyInt(1)))>>)
                 ELSE Write(<<Cmd(":SOUR:VOLT:RANG:AUTO", Token("1", PyInt(1)))>>)>>)

\* An auto_range_source that turns on the current auto-range in both modes.
auto_range_source_current(d) ==
    Chain(<<Asks(K2450_source_mode, d),
            Write(<<Cmd(":SOUR:CURR:RANG:AUTO", Token("1", PyInt(1)))>>)>>)

\* Keithley2450.auto_range_source()
auto_range_source(d) == AutoRangeFor(Asks(K2450_source_mode, d))

\* The steps of apply_current / apply_voltage after the source mode is set.
Applied(d, mode, range, range_value, compliance, compliance_value) ==
    Chain(<<mode,
            IF range_value = PyNone THEN auto_range_source(DeliverAll(d, mode.msgs))
            ELSE SetPath(range, range_value),
            SetPath(compliance, compliance_value),
            Calls("check_errors")>>)

apply_current(d, current_range, compliance_voltage) ==
    Applied(d, SetPath(K2450_source_mode, PyStr("current")),
            K2450_source_current_range, current_range,
            K2450_compliance_voltage, compliance_voltage)

apply_voltage(d, voltage_range, compliance_current) ==
    Applied(d, SetPath(K2450_source_mode, PyStr("voltage")),
            K2450_source_voltage_range, voltage_range,
            K2450_compliance_current, compliance_current)

\* The defaults of ramp_to_current / ramp_to_voltage: steps=30, pause=20e-3.
DefaultSteps == 30

DefaultPause == PyFloat(2, -2)

\* Keithley2450.disable_source()
disable_source == Write(<<Cmd("OUTPUT", Word("OFF"))>>)

\* The end of shutdown: stop_buffer, disable_source, the base shutdown.
ShutdownEnd == Chain(<<Calls("stop_buffer"), disable_source, Calls("shutdown")>>)

\* shutdown once its ramp has returned or raised.
ShutdownRamped(ramp) ==
    IF ramp.res.kind # "ok"
    THEN [msgs |-> ramp.msgs, delivered |-> ramp.delivered, res |-> ramp.res]
    ELSE [msgs |-> ramp.msgs \o ShutdownEnd.msgs,
          delivered |-> ramp.delivered \o ShutdownEnd.msgs, res |-> ShutdownEnd.res]

\* A method that began by reading `first` and went on with `rest`.
After(first, rest) ==
    [msgs |-> first.msgs \o rest.msgs, delivered |-> rest.delivered, res |-> rest.res]

\* shutdown once the source mode has been read.
ShutdownFrom(d, mode, failAt, tie) ==
    IF mode.res.kind # "ok" THEN [msgs |-> mode.msgs, delivered |-> <<>>, res |-> mode.res]
    ELSE After(mode,
               ShutdownRamped(
                   IF mode.res.val = PyStr("current")
                   THEN ramp_to_current(d, PyFloat(0, 0), DefaultSteps, DefaultPause,
                                        failAt, tie)
                   ELSE ramp_to_voltage(d, PyFloat(0, 0), DefaultSteps, DefaultPause,
                                        failAt, tie)))

\* Keithley2450.shutdown(), the adapter failing write failAt of the ramp.
shutdown(d, failAt, tie) == ShutdownFrom(d, Asks(K2450_source_mode, d), failAt, tie)

\* isinstance(datapoints, (list, np.ndarray))
IsListOrArray(datapoints) == datapoints.k \in {"list", "ndarray"}

\* The most data points of an arbitrary waveform.
MaxPoints == 100

\* x >= -1 and x <= 1
InUnit(x) == NumLeq(PyInt(-1), x) /\ NumLeq(x, PyInt(1))

\* location in [1, 2, 3, 4]
IsLocation(location) == \E l \in 1..4 : PyEq(location, PyInt(l))

\* ", ".join(str(x) for x in items[lo..hi]) (the span is halved, so that a
\* long list is joined at a small depth).
RECURSIVE Joined(_, _, _)
Joined(items, lo, hi) ==
    IF lo > hi THEN ""
    ELSE IF lo = hi THEN FormatS(items[lo]).text
    ELSE Joined(items, lo, (lo + hi) \div 2) \o ", "
            \o Joined(items, (lo + hi) \div 2 + 1, hi)

\* ":SOUR:WAVE:ARB:DATA %s" % data: the blank after the header is written
\* also when data is empty.
DataCmd(data) ==
    IF data = "" THEN Cmd(":SOUR:WAVE:ARB:DATA ", Word(""))
    ELSE Cmd(":SOUR:WAVE:ARB:DATA", Token(data, PyStr(data)))

\* The three writes of define_arbitary_waveform once its arguments passed.
WaveformDefined(items, location) ==
    Chain(<<Write(<<DataCmd(Joined(items, 1, Len(items)))>>),
            Write(<<Cmd(":SOUR:WAVE:ARB:COPY", FormatD(location))>>),
            SetPath(K6221_waveform_function,
                    PyStr("arbitrary" \o FormatD(location).text))>>)

\* A define_arbitary_waveform that checks the location after it has written
\* the data points.
define_arbitary_waveform_late_check(datapoints, location) ==
    IF ~IsListOrArray(datapoints) THEN Raises("ValueError")
    ELSE IF Len(datapoints.items) > MaxPoints THEN Raises("ValueError")
    ELSE IF \E i \in 1..Len(datapoints.items) : ~IsNumber(datapoints.items[i])
    THEN Raises("TypeError")
    ELSE IF \E i \in 1..Len(datapoints.items) : ~InUnit(datapoints.items[i])
    THEN Raises("ValueError")
    ELSE IF ~IsLocation(location)
    THEN [msgs |-> Write(<<DataCmd(Joined(datapoints.items, 1, Len(datapoints.items)))>>).msgs,
          res |-> Outcome("ValueError", PyNone)]
    ELSE WaveformDefined(datapoints.items, location)

\* Keithley6221.define_arbitary_waveform(datapoints, location): a point
\* that is no number makes the comparison raise TypeError.
define_arbitary_waveform(datapoints, location) ==
    IF ~IsListOrArray(datapoints) THEN Raises("ValueError")
    ELSE IF Len(datapoints.items) > MaxPoints THEN Raises("ValueError")
    ELSE IF \E i \in 1..Len(datapoints.items) : ~IsNumber(datapoints.items[i])
    THEN Raises("TypeError")
    ELSE IF \E i \in 1..Len(datapoints.items) : ~InUnit(datapoints.items[i])
    THEN Raises("ValueError")
    ELSE IF ~IsLocation(location) THEN Raises("ValueError")
    ELSE WaveformDefined(datapoints.items, location)

\* An enable_source that writes what disable_source writes.
enable_source_off == Write(<<Cmd("OUTPUT", Word("OFF"))>>)

\* Keithley2450.enable_source() and Keithley6221.enable_source()
enable_source == Write(<<Cmd("OUTPUT", Word("ON"))>>)

\* Keithley6221.waveform_arm(), waveform_start(), waveform_abort()
waveform_arm == Write(<<Cmd(":SOUR:WAVE:ARM", Word(""))>>)

waveform_start == Write(<<Cmd(":SOUR:WAVE:INIT", Word(""))>>)

waveform_abort == Write(<<Cmd(":SOUR:WAVE:ABOR", Word(""))>>)

\* Keithley6221.delta_arm(), delta_start(), delta_abort()
delta_arm == Write(<<Cmd(":SOUR:DELT:ARM", Word(""))>>)

delta_start == Write(<<Cmd(":INIT:IMM", Word(""))>>)

delta_abort == Write(<<Cmd(":SOUR:SWE:ABOR", Word(""))>>)

\* The arm, start and abort methods of Keithley6221 by name.
Triggering ==
    [waveform_arm |-> waveform_arm, waveform_start |-> waveform_start,
     waveform_abort |-> waveform_abort, delta_arm |-> delta_arm,
     delta_start |-> delta_start, delta_abort |-> delta_abort]

\* A Keithley6221.shutdown that aborts the waveform before it turns the
\* output off.
Keithley6221_shutdown_aborting ==
    Chain(<<waveform_abort, disable_source, Calls("shutdown")>>)

\* Keithley6221.shutdown(): disable_source, then the base shutdown.
Keithley6221_shutdown == Chain(<<disable_source, Calls("shutdown")>>)

\* The three reading getters of Keithley2450 by name.
ReadingProps ==
    [current |-> K2450_current, voltage |-> K2450_voltage,
     resistance |-> K2450_resistance]

\* Every message of a method whose writes the adapter carries out reaches
\* the device.
Delivered(r) == [msgs |-> r.msgs, delivered |-> r.msgs, res |-> r.res]

-----------------------------------------------------------------------------
(* Sessions that call the methods: the instrument is the one the session's *)
(* property belongs to.                                                    *)

MethodProps == {"K2450_source_mode", "K6221_source_enabled"}

Inst == Catalog[prop].inst

ModeTokens == {Word("CURR"), Word("VOLT")}

\* A reply of three readings: voltage, current, resistance.
Readings(k) ==
    <<Token(FormatG(PyFloat(15 + k, -1)).text, PyFloat(15 + k, -1)),
      Token(FormatG(PyFloat(2 + k, -3)).text, PyFloat(2 + k, -3)),
      Token(FormatG(PyInt(750 + k)).text, PyInt(750 + k))>>

\* What the buffer answers the four statistics queries with.
StatisticsReplies ==
    (K2450_means.query :> Readings(0)) @@ (K2450_maximums.query :> Readings(1))
    @@ (K2450_minimums.query :> Readings(2)) @@ (K2450_standard_devs.query :> Readings(3))

Intervals ==
    {PyInt(-1), PyFloat(5, -4), PyFloat(1, -3), PyFloat(15, -4), PyInt(1),
     PyFloat(25, -1), PyFloat(9999999, -2), PyFloat(99999995, -3), PyInt(100000)}

Nplcs == {PyInt(1), PyFloat(15, -7)}

MeasureRanges == {PyFloat(105, -6), PyInt(-5000), PyIntE(1, 12)}

SourceRanges == {PyNone, PyFloat(1, -2), PyInt(5000)}

\* The write of its ramp at which the adapter fails a shutdown (0: none).
FailPoints == {0, 1, 16, DefaultSteps}

Compliances == {PyFloat(1, -1), PyInt(5000), PyInt(-5000)}

InitMethods ==
    /\ prop \in MethodProps
    /\ IF Inst = "K2450"
       THEN \E mode \in ModeTokens, level \in RampTokens :
              dev = (K2450_source_mode.query :> <<mode>>)
                    @@ (K2450_source_current.query :> <<level>>)
                    @@ (K2450_source_voltage.query :> <<level>>)
                    @@ StatisticsReplies
       ELSE \E t \in InitTokens : dev = [r \in PropRegisters(prop) |-> <<t>>]
    /\ sent = <<>>
    /\ result = Outcome("none", PyNone)
    /\ op = NoOp
    /\ last_set = PyNone
    /\ ramps = 0

\* One call of a method, r being what it does on the device as it is.  The
\* sessions followed call nothing but shutdown once shutdown was called.
RunMethod(name, arg, r) ==
    /\ ramps = 0
    /\ sent' = r.msgs
    /\ result' = r.res
    /\ dev' = DeliverAll(dev, r.delivered)
    /\ op' = [NoOp EXCEPT !.name = name, !.arg = arg]
    /\ UNCHANGED <<prop, last_set, ramps>>

\* instrument.mean_voltage ... instrument.std_resistance
StatisticGet ==
    /\ Inst = "K2450"
    /\ \E name \in DOMAIN BufferStatistics :
          RunMethod(name, PyNone, Delivered(Statistic(dev, name)))

\* instrument.set_timed_arm(interval)
SetTimedArm ==
    /\ Inst = "K6221"
    /\ \E interval \in Intervals, tie \in Ties :
          RunMethod("set_timed_arm", interval, Delivered(set_timed_arm(interval, tie)))

MeasureArgs(nplc, value, auto_range) ==
    [nplc |-> nplc, value |-> value, auto_range |-> auto_range]

\* instrument.measure_resistance(nplc, resistance, auto_range)
MeasureResistance ==
    /\ Inst = "K2450"
    /\ \E nplc \in Nplcs, resistance \in MeasureRanges, auto_range \in BOOLEAN, tie \in Ties :
          RunMethod("measure_resistance", MeasureArgs(nplc, resistance, auto_range),
                    Delivered(measure_resistance(nplc, resistance, auto_range, tie)))

\* instrument.measure_voltage(nplc, voltage, auto_range)
MeasureVoltage ==
    /\ Inst = "K2450"
    /\ \E nplc \in Nplcs, voltage \in MeasureRanges, auto_range \in BOOLEAN, tie \in Ties :
          RunMethod("measure_voltage", MeasureArgs(nplc, voltage, auto_range),
                    Delivered(measure_voltage(nplc, voltage, auto_range, tie)))

\* instrument.measure_current(nplc, current, auto_range)
MeasureCurrent ==
    /\ Inst = "K2450"
    /\ \E nplc \in Nplcs, current \in MeasureRanges, auto_range \in BOOLEAN, tie \in Ties :
          RunMethod("measure_current", MeasureArgs(nplc, current, auto_range),
                    Delivered(measure_current(nplc, current, auto_range, tie)))

ApplyArgs(range, compliance) == [range |-> range, compliance |-> compliance]

\* instrument.apply_current(current_range, compliance_voltage)
ApplyCurrent ==
    /\ Inst = "K2450"
    /\ \E current_range \in SourceRanges, compliance_voltage \in Compliances :
          RunMethod("apply_current", ApplyArgs(current_range, compliance_voltage),
                    Delivered(apply_current(dev, current_range, compliance_voltage)))

\* instrument.apply_voltage(voltage_range, compliance_current)
ApplyVoltage ==
    /\ Inst = "K2450"
    /\ \E voltage_range \in SourceRanges, compliance_current \in Compliances :
          RunMethod("apply_voltage", ApplyArgs(voltage_range, compliance_current),
                    Delivered(apply_voltage(dev, voltage_range, compliance_current)))

\* One run of shutdown, r being what it does on the device as it is.
RunShutdown(r, failAt) ==
    /\ ramps < MaxRamps
    /\ sent' = r.msgs
    /\ result' = r.res
    /\ dev' = DeliverAll(dev, r.delivered)
    /\ op' = [NoOp EXCEPT !.name = "shutdown", !.failAt = failAt,
                          !.before = dev[K2450_source_mode.query]]
    /\ ramps' = ramps + 1
    /\ UNCHANGED <<prop, last_set>>

\* instrument.shutdown()
Shutdown ==
    /\ Inst = "K2450"
    /\ \E failAt \in FailPoints, tie \in Ties :
          RunShutdown(shutdown(dev, failAt, tie), failAt)

\* The values the session's property is set to.
SessionValues == {PyStr("current"), PyStr("voltage"), PyBool(TRUE), PyInt(5000)}

\* instrument.<prop> = value
SessionSet == ramps = 0 /\ \E value \in SessionValues : PropertySet(value)

\* instrument.<prop>
SessionGet == ramps = 0 /\ PropertyGet

NextMethods ==
    \/ StatisticGet
    \/ SetTimedArm
    \/ MeasureResistance
    \/ MeasureVoltage
    \/ MeasureCurrent
    \/ ApplyCurrent
    \/ ApplyVoltage
    \/ Shutdown
    \/ SessionSet
    \/ SessionGet

SpecMethods == InitMethods /\ [][NextMethods]_vars

-----------------------------------------------------------------------------
(* The output, the readings and the waveform and delta modes, on a device  *)
(* that honours the commands it is sent.                                   *)

\* The spellings of the output command the drivers write.
OutputHeaders == {"OUTPUT", "OUTPut"}

\* The register of the output state among those of d.
OutputQuery(d) == CHOOSE q \in {"OUTPUT?", "OUTPut?"} : q \in DOMAIN d

\* The device reads ON and 1 as on, OFF and 0 as off, and answers the
\* query with 1 or 0; it keeps its state on any other argument.
Switched(d, tok) ==
    IF tok.text \in {"ON", "1"} THEN Store(d, OutputQuery(d), Token("1", PyInt(1)))
    ELSE IF tok.text \in {"OFF", "0"} THEN Store(d, OutputQuery(d), Token("0", PyInt(0)))
    ELSE d

\* The mode of the waveform (or of delta) after arm, start and abort: start
\* runs what is armed and is refused otherwise.
Armed(d, r) == Store(d, r, Word("armed"))

Started(d, r) ==
    IF r \in DOMAIN d /\ d[r] = <<Word("armed")>> THEN Store(d, r, Word("running")) ELSE d

Aborted(d, r) == Store(d, r, Word("idle"))

\* The readings of one measurement: voltage, current, resistance.
ReadingOf ==
    [VOLT |-> Readings(0)[1], CURR |-> Readings(0)[2], RES |-> Readings(0)[3]]

SenseFunctions == {Word("'VOLT'"), Word("'CURR'"), Word("'RES'")}

\* :READ? answers with the reading of the sense function selected.
Sensing(d, tok) ==
    CASE tok = Word("'VOLT'") -> Store(Store(d, ":SENS:FUNC?", tok), ":READ?", ReadingOf.VOLT)
      [] tok = Word("'CURR'") -> Store(Store(d, ":SENS:FUNC?", tok), ":READ?", ReadingOf.CURR)
      [] tok = Word("'RES'") -> Store(Store(d, ":SENS:FUNC?", tok), ":READ?", ReadingOf.RES)
      [] OTHER -> d

\* The device after one command.
Honour(d, cmd) ==
    CASE cmd.hdr \in OutputHeaders -> Switched(d, cmd.tok)
      [] cmd.hdr = ":SENS:FUNC" -> Sensing(d, cmd.tok)
      [] cmd.hdr = ":SOUR:WAVE:ARM" -> Armed(d, "waveform")
      [] cmd.hdr = ":SOUR:WAVE:INIT" -> Started(d, "waveform")
      [] cmd.hdr = ":SOUR:WAVE:ABOR" -> Aborted(d, "waveform")
      [] cmd.hdr = ":SOUR:DELT:ARM" -> Armed(d, "delta")
      [] cmd.hdr = ":INIT:IMM" -> Started(d, "delta")
      [] cmd.hdr = ":SOUR:SWE:ABOR" -> Aborted(d, "delta")
      [] OTHER -> Store(d, Register(cmd.hdr), cmd.tok)

RECURSIVE HonourCmds(_, _)
HonourCmds(d, cmds) ==
    IF Len(cmds) = 0 \/ DOMAIN d = {} THEN d
    ELSE HonourCmds(Honour(d, Head(cmds)), Tail(cmds))

\* The device after the writes among the messages, in order.
RECURSIVE HonourAll(_, _)
HonourAll(d, msgs) ==
    IF Len(msgs) = 0 \/ DOMAIN d = {} THEN d
    ELSE HonourAll(IF Head(msgs).kind = "write" THEN HonourCmds(d, Head(msgs).cmds) ELSE d,
                   Tail(msgs))

\* What the device answers a query with: nothing when it has no such
\* register.
Answer(d, query) == IF query \in DOMAIN d THEN d[query] ELSE <<>>

OutputProps == {"K2450_source_enabled", "K6221_source_enabled"}

OutputTokens == {Token("0", PyInt(0)), Token("1", PyInt(1))}

\* The data points define_arbitary_waveform is called with: lists and
\* arrays of 0, 1, 2, MaxPoints and MaxPoints + 1 points, points at and
\* beyond the bounds, a tuple, a number, a list that holds a string; the
\* locations: whole numbers around 1..4, 2.0 and 2.5.
Filled(n, x) == PyList([i \in 1..n |-> x])

Datapoints ==
    {Filled(0, PyInt(0)), Filled(1, PyFloat(-11, -1)),
     PyList(<<PyInt(-1), PyInt(1)>>), PyList(<<PyFloat(5, -1), PyFloat(1001, -3)>>),
     PyList(<<PyFloat(5, -1), PyStr("abc")>>),
     Filled(MaxPoints, PyFloat(25, -2)), Filled(MaxPoints + 1, PyFloat(25, -2)),
     [PyList(<<PyFloat(5, -1), PyInt(1)>>) EXCEPT !.k = "ndarray"],
     [PyList(<<PyFloat(5, -1), PyInt(1)>>) EXCEPT !.k = "tuple"],
     PyFloat(5, -1)}

Locations ==
    {PyInt(0), PyInt(1), PyInt(4), PyInt(5), PyFloat(2, 0), PyFloat(25, -1)}

Switches == {PyBool(TRUE), PyBool(FALSE), PyInt(5000)}

InitOutput ==
    /\ prop \in OutputProps
    /\ IF Inst = "K2450"
       THEN \E out \in OutputTokens, func \in SenseFunctions :
              dev = Sensing(("OUTPUT?" :> <<out>>) @@ (":READ?" :> <<out>>)
                            @@ (":SENS:FUNC?" :> <<func>>), func)
       ELSE \E out \in OutputTokens :
              dev = ("OUTPut?" :> <<out>>) @@ ("waveform" :> <<Word("idle")>>)
                    @@ ("delta" :> <<Word("idle")>>)
    /\ sent = <<>>
    /\ result = Outcome("none", PyNone)
    /\ op = NoOp
    /\ last_set = PyNone
    /\ ramps = 0

\* One call, r being what it hands over and returns; switched is the state
\* the call asks the output to take (None: it does not ask).
RunOutput(name, arg, r, switched) ==
    /\ sent' = r.msgs
    /\ result' = r.res
    /\ dev' = HonourAll(dev, r.msgs)
    /\ op' = [NoOp EXCEPT !.name = name, !.arg = arg]
    /\ last_set' = IF switched = PyNone \/ r.res.kind # "ok" THEN last_set ELSE switched
    /\ UNCHANGED <<prop, ramps>>

\* instrument.enable_source()
EnableSource ==
    /\ prop \in OutputProps
    /\ RunOutput("enable_source", PyNone, enable_source, PyBool(TRUE))

\* instrument.disable_source()
DisableSource ==
    /\ prop \in OutputProps
    /\ RunOutput("disable_source", PyNone, disable_source, PyBool(FALSE))

\* instrument.source_enabled = value (Keithley6221)
SourceEnabledSet ==
    /\ Inst = "K6221"
    /\ \E value \in Switches :
          RunOutput("set", value, SetPath(K6221_source_enabled, value),
                    PyBool(value \in {PyBool(TRUE), PyInt(1)}))

\* instrument.source_enabled
SourceEnabledGet ==
    /\ prop \in OutputProps
    /\ RunOutput("get", PyNone, Asks(Catalog[prop], dev), PyNone)

\* instrument.current, instrument.voltage, instrument.resistance
ReadingGet ==
    /\ Inst = "K2450"
    /\ \E name \in DOMAIN ReadingProps :
          RunOutput("reading", PyStr(name),
                    [msgs |-> <<AskMsg(ReadingProps[name].query)>>,
                     res |-> GetReply(ReadingProps[name],
                                      Answer(dev, ReadingProps[name].query))],
                    PyNone)

\* instrument.measure_resistance(), measure_voltage(), measure_current()
Configure ==
    /\ Inst = "K2450"
    /\ \/ RunOutput("measure_resistance", PyNone,
                    measure_resistance(PyInt(1), PyFloat(21, 4), TRUE, 1), PyNone)
       \/ RunOutput("measure_voltage", PyNone,
                    measure_voltage(PyInt(1), PyInt(21), TRUE, 1), PyNone)
       \/ RunOutput("measure_current", PyNone,
                    measure_current(PyInt(1), PyFloat(105, -6), TRUE, 1), PyNone)

\* instrument.waveform_arm() ... instrument.delta_abort()
Trigger ==
    /\ Inst = "K6221"
    /\ \E name \in DOMAIN Triggering : RunOutput(name, PyNone, Triggering[name], PyNone)

\* instrument.define_arbitary_waveform(datapoints, location)
DefineArbitaryWaveform ==
    /\ Inst = "K6221"
    /\ \E datapoints \in Datapoints, location \in Locations :
          RunOutput("define_arbitary_waveform",
                    [datapoints |-> datapoints, location |-> location],
                    define_arbitary_waveform(datapoints, location), PyNone)

\* instrument.shutdown() (Keithley6221)
Shutdown6221 ==
    /\ Inst = "K6221"
    /\ RunOutput("shutdown", PyNone, Keithley6221_shutdown, PyBool(FALSE))

NextOutput ==
    \/ EnableSource
    \/ DisableSource
    \/ SourceEnabledSet
    \/ SourceEnabledGet
    \/ ReadingGet
    \/ Configure
    \/ Trigger
    \/ DefineArbitaryWaveform
    \/ Shutdown6221

SpecOutput == InitOutput /\ [][NextOutput]_vars

-----------------------------------------------------------------------------
(* Statements about property access (specification Spec).                  *)

c      == Catalog[prop]
IsSet  == op.name = "set"
IsGet  == op.name = "get"

\* The token written by the last operation: the last command of its one
\* message.
Written == sent[1].cmds[Len(sent[1].cmds)].tok

WroteOne == Len(sent) = 1 /\ sent[1].kind = "write"

\* The text denotes the value: the same number, or the same string.
Denotes(tok, v) == IF v.k = "str" THEN tok.text = v.s ELSE PyEq(tok.val, v)

InRange(v, range) == NumLeq(range[1], v) /\ NumLeq(v, range[2])

Clamped(v, range) ==
    IF NumLess(v, range[1]) THEN range[1]
    ELSE IF NumLess(range[2], v) THEN range[2] ELSE v

TruncatedRangeProps == {p \in Props : Catalog[p].validator = "truncated_range"}

\* C1 (as claimed): a set of a truncated_range control with a number v never
\* fails and writes v when low <= v <= high, low when v < low, high when
\* v > high.
C1_WritesClampedValue ==
    (IsSet /\ prop \in TruncatedRangeProps /\ IsNumber(op.arg)) =>
        /\ result.kind = "ok"
        /\ WroteOne
        /\ Denotes(Written, Clamped(op.arg, c.range))

\* The token a value map pairs with a user value.
TokenOf(d, v) == d.toks[CHOOSE i \in 1..Len(d.set) : PyEq(d.set[i], v)]

StrictDiscreteProps ==
    {"K2450_source_mode", "K2450_wires", "K2450_current_filter_type",
     "K2450_current_filter_state", "K2450_voltage_filter_type",
     "K2450_current_output_off_state", "K2450_voltage_output_off_state",
     "K6221_source_enabled", "K6221_output_low_grounded", "K6221_delta_unit"}

\* C2 (as claimed): a set of a strict_discrete_set control fails with a
\* validation error for a value outside the allowed set and writes the
\* value itself, unchanged, for a value in it.
C2_WritesValueUnchanged ==
    (IsSet /\ prop \in StrictDiscreteProps) =>
        IF Member(op.arg, c.set)
        THEN result.kind = "ok" /\ WroteOne /\ Denotes(Written, op.arg)
        ELSE result.kind = "ValidationError" /\ sent = <<>>

\* C2 (amended): a value outside the allowed set fails with a validation
\* error and writes nothing; a value in it passes validation unchanged and
\* is written as it is by a control without a value map, as the wire token
\* the map pairs with it by a control with map_values=True.
C2_WritesValueOrMappedToken ==
    (IsSet /\ prop \in StrictDiscreteProps) =>
        IF Member(op.arg, c.set)
        THEN /\ result.kind = "ok"
             /\ WroteOne
             /\ Denotes(Written, IF c.map_values THEN TokenOf(c, op.arg) ELSE op.arg)
        ELSE result.kind = "ValidationError" /\ sent = <<>>

C2_Witness ==
    /\ prop = "K2450_wires" /\ IsSet /\ op.arg = PyInt(4)
    /\ result.kind = "ok" /\ WroteOne /\ Render(sent[1]) = ":SENS:RES:RSENSE 1"

StrictRangeProps ==
    {"K6221_delta_high_source", "K6221_delta_low_source", "K6221_delta_buffer_points"}

\* C3: a set of a strict_range control with a number below low or above
\* high fails with a validation error and writes nothing; with a number in
\* [low, high], the bounds included, it writes that number, not a bound.
C3_StrictRangeRejectsOrPasses ==
    (IsSet /\ prop \in StrictRangeProps /\ IsNumber(op.arg)) =>
        IF InRange(op.arg, c.range)
        THEN result.kind = "ok" /\ WroteOne /\ Denotes(Written, op.arg)
        ELSE result.kind = "ValidationError" /\ sent = <<>>

C3_Witness ==
    /\ prop = "K6221_delta_buffer_points" /\ IsSet /\ op.arg = PyInt(1000000)
    /\ result.kind = "ok" /\ WroteOne /\ Render(sent[1]) = "TRAC:POIN 1000000"

JoinedProps == {"K6221_delta_delay", "K6221_delta_cycles", "K6221_delta_measurement_sets"}

\* C4: a control validated by joined_validators(strict_range,
\* strict_discrete_set) over ([low, high], ["INF"]) accepts a value exactly
\* when it is a number of [low, high] or the string "INF", and otherwise
\* fails with a validation error; delta_delay accepts 5000.0 and "INF" and
\* rejects 10000.0 and "inf".
C4_JoinedAcceptsRangeOrINF ==
    (IsSet /\ prop \in JoinedProps) =>
        /\ (result.kind = "ok") <=>
              ((IsNumber(op.arg) /\ InRange(op.arg, c.range)) \/ op.arg = PyStr("INF"))
        /\ result.kind \in {"ok", "ValidationError"}
        /\ (result.kind = "ok") <=> WroteOne
        /\ (result.kind # "ok") => sent = <<>>
        /\ prop = "K6221_delta_delay" =>
              /\ op.arg = PyFloat(5000, 0)  => result.kind = "ok"
              /\ op.arg = PyStr("INF")      => result.kind = "ok"
              /\ op.arg = PyFloat(10000, 0) => result.kind = "ValidationError"
              /\ op.arg = PyStr("inf")      => result.kind = "ValidationError"

C4_Witness ==
    /\ prop = "K6221_delta_delay" /\ IsSet /\ op.arg = PyStr("INF")
    /\ result.kind = "ok" /\ WroteOne /\ Render(sent[1]) = ":SOUR:DELT:DELay INF"

MapProps ==
    {"K2450_source_mode", "K2450_source_current_delay_auto",
     "K2450_source_voltage_delay_auto", "K2450_wires", "K6221_source_enabled",
     "K6221_shield_to_guard_enabled", "K6221_output_low_grounded",
     "K6221_source_auto_range", "K6221_delta_unit", "K6221_waveform_function",
     "K6221_waveform_ranging", "K6221_waveform_use_phasemarker",
     "K6221_display_enabled"}

GetProcessProps ==
    {"K6221_delta_compliance_abort_enabled", "K6221_delta_cold_switch_enabled"}

\* C5 (as claimed): for every control with map_values=True, on a device that
\* answers the query with the token last written, a get after a set of the
\* user value u returns u.
C5_RoundTripEveryMap ==
    (IsGet /\ prop \in MapProps \cup GetProcessProps /\ last_set # PyNone) =>
        result.kind = "ok" /\ PyEq(result.val, last_set)

\* C5 (amended): the round trip holds for every control with map_values=True
\* that declares no get_process, and no two user values of such a map share
\* a wire token; the two controls that declare
\* get_process={1: "ON", 0: "OFF"}.get read the device's 1 or 0, and their
\* get fails with a mapping error on a device that echoes the token written.
C5_RoundTripWithoutGetProcess ==
    /\ (IsGet /\ prop \in MapProps /\ last_set # PyNone) =>
          result.kind = "ok" /\ PyEq(result.val, last_set)
    /\ prop \in MapProps =>
          \A i, j \in 1..Len(c.toks) : PyEq(c.toks[i], c.toks[j]) => i = j
    /\ (IsGet /\ prop \in GetProcessProps /\ last_set # PyNone) =>
          result.kind = "MappingError"

C5_Witness ==
    /\ prop = "K6221_waveform_function" /\ IsGet /\ last_set = PyStr("ramp")
    /\ dev[":SOUR:WAVE:FUNC?"][1].text = "RAMP"
    /\ result = Outcome("ok", PyStr("ramp"))

Rejections == {"ValidationError", "MappingError"}

\* A set the declared domain excludes: a number outside [-0.105, 0] for
\* delta_low_source, a value that is no key of the map for
\* shield_to_guard_enabled.
Excluded(p, v) ==
    \/ p = "K6221_delta_low_source" /\ IsNumber(v)
         /\ ~InRange(v, <<PyFloat(-105, -3), PyInt(0)>>)
    \/ p = "K6221_shield_to_guard_enabled"
         /\ ~Member(v, <<PyBool(TRUE), PyBool(FALSE)>>)

\* C6: a set that its validator or its value map rejects sends no message
\* and leaves every device register as it was; a set of delta_low_source
\* outside its range and a set of shield_to_guard_enabled with a value
\* absent from its map are rejected so.
C6_RejectedSetHasNoEffect ==
    [][(op'.name = "set" /\ (result'.kind \in Rejections \/ Excluded(prop, op'.arg)))
          => (result'.kind \in Rejections /\ sent' = <<>> /\ dev' = dev)]_vars

C6_Witness ==
    /\ prop = "K6221_shield_to_guard_enabled" /\ IsSet /\ op.arg = PyStr("GUAR")
    /\ last_set = PyBool(TRUE) /\ dev[":OUTPut:ISHield?"][1].text = "GUAR"
    /\ result.kind = "MappingError" /\ sent = <<>>

RangeProps ==
    {"K2450_current_range", "K2450_source_current_range", "K2450_voltage_range",
     "K2450_source_voltage_range", "K2450_resistance_range", "K6221_source_range"}

RangeHeader(p) ==
    CASE p = "K2450_current_range"        -> ":SENS:CURR:RANG"
      [] p = "K2450_source_current_range" -> ":SOUR:CURR:RANG"
      [] p = "K2450_voltage_range"        -> ":SENS:VOLT:RANG"
      [] p = "K2450_source_voltage_range" -> ":SOUR:VOLT:RANG"
      [] p = "K2450_resistance_range"     -> ":SENS:RES:RANG"
      [] p = "K6221_source_range"         -> ":SOUR:CURR:RANG"

AutoOff(hdr) == Cmd(hdr \o ":AUTO", Token("0", PyInt(0)))

\* C7: a set of an explicit-range control with a number issues one message
\* of exactly two commands, the auto-range-off directive first and the
\* range command with the clamped value second; no message holds a range
\* command that the directive does not precede; source_current_range = 1.05
\* sends ':SOUR:CURR:RANG:AUTO 0;:SOUR:CURR:RANG 1.05'.
C7_RangeSetDisablesAutoFirst ==
    /\ (IsSet /\ prop \in RangeProps /\ IsNumber(op.arg)) =>
          /\ result.kind = "ok"
          /\ WroteOne
          /\ Len(sent[1].cmds) = 2
          /\ sent[1].cmds[1] = AutoOff(RangeHeader(prop))
          /\ sent[1].cmds[2].hdr = RangeHeader(prop)
          /\ Denotes(sent[1].cmds[2].tok, Clamped(op.arg, c.range))
    /\ \A i \in 1..Len(sent) : \A j \in 1..Len(sent[i].cmds) :
          (\E p \in RangeProps : sent[i].cmds[j].hdr = RangeHeader(p)) =>
              j > 1 /\ sent[i].cmds[j - 1] = AutoOff(sent[i].cmds[j].hdr)
    /\ (IsSet /\ prop = "K2450_source_current_range" /\ op.arg = PyFloat(105, -2)) =>
          Render(sent[1]) = ":SOUR:CURR:RANG:AUTO 0;:SOUR:CURR:RANG 1.05"

C7_Witness ==
    /\ prop = "K2450_source_current_range" /\ IsSet /\ op.arg = PyFloat(105, -2)
    /\ WroteOne /\ Render(sent[1]) = ":SOUR:CURR:RANG:AUTO 0;:SOUR:CURR:RANG 1.05"
    /\ dev[":SOUR:CURR:RANG:AUTO?"][1].text = "0"

MeasurementProps ==
    {"K2450_source_enabled", "K2450_current", "K2450_voltage", "K2450_resistance",
     "K2450_means", "K2450_maximums", "K2450_minimums", "K2450_standard_devs",
     "K6221_delta_sense", "K6221_delta_values", "K6221_delta_connected",
     "K6221_measurement_events", "K6221_operation_events",
     "K6221_questionable_events", "K6221_standard_events"}

\* C10: a set of a property declared with Instrument.measurement fails with
\* a read-only error and sends nothing to the instrument.
C10_MeasurementIsReadOnly ==
    (IsSet /\ prop \in MeasurementProps) =>
        result.kind = "ReadOnlyError" /\ sent = <<>>

C10_Witness ==
    /\ prop = "K6221_measurement_events" /\ IsSet /\ op.arg = PyInt(1)
    /\ result.kind = "ReadOnlyError" /\ sent = <<>>

\* The token the device answers the property's query with.
Reply == dev[c.query][1]

CastIntProps ==
    {"K2450_buffer_points", "K2450_current_filter_count", "K2450_voltage_filter_count",
     "K6221_measurement_event_enabled", "K6221_operation_event_enabled",
     "K6221_questionable_event_enabled", "K6221_standard_event_enabled",
     "K6221_srq_event_enabled", "K6221_measurement_events", "K6221_operation_events",
     "K6221_questionable_events", "K6221_standard_events"}

\* C11: the get of a property declared with cast=int returns the integer
\* the reply denotes (128 on the reply "128") and fails with a parse error,
\* returning no value, on a reply that is no numeral.
C11_CastIntGetter ==
    (IsGet /\ prop \in CastIntProps) =>
        /\ Reply.val.k = "int" => result = Outcome("ok", Reply.val)
        /\ Reply.val.k = "str" => result = Outcome("ParseError", PyNone)
        /\ Reply.text = "128" => result = Outcome("ok", PyInt(128))

C11_Witness ==
    /\ prop = "K6221_measurement_events" /\ IsGet
    /\ dev[":STAT:MEAS?"][1].text = "128"
    /\ result = Outcome("ok", PyInt(128))

\* What the get of a value map returns on the reply: the user value whose
\* wire token equals the reply, a mapping error when no token does.
MapsBack(d, reply, res) ==
    IF Member(reply.val, d.toks)
    THEN /\ res.kind = "ok"
         /\ \E i \in 1..Len(d.set) : res.val = d.set[i] /\ PyEq(d.toks[i], reply.val)
    ELSE res = Outcome("MappingError", PyNone)

\* C12 (as claimed): the get of every control with a value map returns the
\* user value whose wire token equals the device reply and fails with a
\* mapping error whenever the reply is not one of the map's wire tokens.
C12_MapGetEveryMap ==
    (IsGet /\ prop \in MapProps \cup GetProcessProps) => MapsBack(c, Reply, result)

\* C12 (amended): so it is for every control with a value map that declares
\* no get_process; the two controls that declare
\* get_process={1: "ON", 0: "OFF"}.get return True on the reply 1, False on
\* the reply 0 and fail with a mapping error on every other reply, the wire
\* tokens ON and OFF included.
C12_MapGetWithoutGetProcess ==
    /\ (IsGet /\ prop \in MapProps) => MapsBack(c, Reply, result)
    /\ (IsGet /\ prop \in GetProcessProps) =>
          result = IF PyEq(Reply.val, PyInt(1)) THEN Outcome("ok", PyBool(TRUE))
                   ELSE IF PyEq(Reply.val, PyInt(0)) THEN Outcome("ok", PyBool(FALSE))
                   ELSE Outcome("MappingError", PyNone)

C12_Witness ==
    /\ prop = "K2450_source_mode" /\ IsGet
    /\ dev[":SOUR:FUNC?"][1].text = "VOLT"
    /\ result = Outcome("ok", PyStr("voltage"))

\* C13: no value is cached: a get hands the adapter exactly the one query of
\* the property and returns what the device answers at that moment,
\* whatever was set or read before; a set that succeeds hands the adapter
\* exactly one write message.
C13_EveryAccessReachesDevice ==
    /\ IsGet => sent = <<AskMsg(c.query)>> /\ result = GetReply(c, dev[c.query])
    /\ (IsSet /\ result.kind = "ok") => WroteOne

\* A get after a set that the device holds clamped: it returns the device's
\* value, not the value set.
C13_Witness ==
    /\ IsGet /\ prop = "K2450_compliance_voltage" /\ last_set = PyInt(5000)
    /\ sent = <<AskMsg(":SOUR:CURR:VLIM?")>>
    /\ result = Outcome("ok", PyFloat(210, 0))

NplcProps == {"K2450_current_nplc", "K2450_voltage_nplc", "K2450_resistance_nplc"}

\* The range the NPLC controls document: "Takes values from 0.01 to 10".
NplcRange == <<PyFloat(1, -2), PyInt(10)>>

\* C17 (as claimed): every NPLC value that a set of current_nplc,
\* voltage_nplc or resistance_nplc writes lies in [0.01, 10].
C17_NplcWrittenInRange ==
    (IsSet /\ prop \in NplcProps /\ WroteOne /\ IsNumber(Written.val)) =>
        InRange(Written.val, NplcRange)

-----------------------------------------------------------------------------
(* Statements about the ramps (specification SpecRamp).                    *)

IsRamp == op.name \in {"ramp_to_current", "ramp_to_voltage"}

RampProp == IF op.name = "ramp_to_current" THEN K2450_source_current
            ELSE K2450_source_voltage

\* The token of the write that is message i of the last operation.
Level(i) == sent[i].cmds[1].tok

IsLevelWrite(msg, d) ==
    msg.kind = "write" /\ Len(msg.cmds) = 1 /\ msg.cmds[1].hdr = d.hdr

\* C8 (as claimed): a ramp that completes reads the source level exactly
\* once, before any write, and then issues exactly `steps` writes of the
\* source level, in order from the value read to the target, both endpoints
\* included: the first write is the value read and the last the target;
\* from 0.0 to 0.005 in 3 steps the writes are 0, 0.0025 and 0.005.
C8_RampWritesStepsToTarget ==
    (IsRamp /\ result.kind = "ok") =>
        /\ sent[1] = AskMsg(RampProp.query)
        /\ \A i \in 2..Len(sent) : IsLevelWrite(sent[i], RampProp)
        /\ Len(sent) = 1 + op.steps
        /\ op.steps >= 1 =>
              /\ Denotes(Level(2), op.start)
              /\ Denotes(Level(Len(sent)), op.arg)
        /\ \A i \in 2..Len(sent) :
              \/ NumLeq(op.start, Level(i).val) /\ NumLeq(Level(i).val, op.arg)
              \/ NumLeq(op.arg, Level(i).val) /\ NumLeq(Level(i).val, op.start)
        /\ (op.name = "ramp_to_current" /\ PyEq(op.start, PyInt(0))
              /\ op.arg = PyFloat(5, -3) /\ op.steps = 3) =>
              [i \in 1..3 |-> Render(sent[i + 1])] =
                 <<":SOUR:CURR:LEV 0", ":SOUR:CURR:LEV 0.0025", ":SOUR:CURR:LEV 0.005">>

\* C9: a ramp whose write number k the adapter fails stops there: the
\* messages handed to the adapter are the read and the writes 1 to k, none
\* later, and the device holds the level of write k - 1, or the level it
\* held before the ramp when k = 1.
C9_FailedWriteAbortsRamp ==
    (IsRamp /\ result.kind = "AdapterError") =>
        /\ op.failAt \in 1..op.steps
        /\ Len(sent) = 1 + op.failAt
        /\ \A i \in 2..Len(sent) : IsLevelWrite(sent[i], RampProp)
        /\ dev[RampProp.query] =
              IF op.failAt = 1 THEN op.before ELSE <<Level(op.failAt)>>

C9_Witness ==
    /\ op.name = "ramp_to_current" /\ result.kind = "AdapterError"
    /\ op.steps = 3 /\ op.failAt = 3 /\ op.arg = PyFloat(5, -3)
    /\ PyEq(op.start, PyInt(0))
    /\ [i \in 1..Len(sent) |-> Render(sent[i])] =
          <<":SOUR:CURR?", ":SOUR:CURR:LEV 0", ":SOUR:CURR:LEV 0.0025",
            ":SOUR:CURR:LEV 0.005">>
    /\ dev[":SOUR:CURR?"][1].text = "0.0025"

-----------------------------------------------------------------------------
(* Statements about the methods (specification SpecMethods).               *)

IsWrite(msg) == msg.kind = "write"

\* The write messages of the last operation, in order.
Writes == SelectSeq(sent, IsWrite)

\* The strings the last operation handed over, in order.
Texts == [i \in 1..Len(sent) |-> Render(sent[i])]

StatNames ==
    {"mean_voltage", "max_voltage", "min_voltage", "std_voltage",
     "mean_current", "max_current", "min_current", "std_current",
     "mean_resistance", "max_resistance", "min_resistance", "std_resistance"}

\* The query of statistic S and the place of each quantity in its reply,
\* [voltage, current, resistance].
StatQuery(name) ==
    CASE name \in {"mean_voltage", "mean_current", "mean_resistance"} ->
            ":TRACe:STATistics:AVERage?"
      [] name \in {"max_voltage", "max_current", "max_resistance"} ->
            ":TRACe:STATistics:MAXimum?"
      [] name \in {"min_voltage", "min_current", "min_resistance"} ->
            ":TRACe:STATistics:MINimum?"
      [] name \in {"std_voltage", "std_current", "std_resistance"} ->
            ":TRACe:STATistics:STDDev?"

StatPlace(name) ==
    CASE name \in {"mean_voltage", "max_voltage", "min_voltage", "std_voltage"} -> 0
      [] name \in {"mean_current", "max_current", "min_current", "std_current"} -> 1
      [] OTHER -> 2

\* C14: each buffer statistic property issues exactly one query, that of
\* its statistic, and returns the element of the reply at the place of its
\* quantity: 0 for *_voltage, 1 for *_current, 2 for *_resistance.
C14_StatisticsIndexedPositionally ==
    (op.name \in StatNames) =>
        /\ sent = <<AskMsg(StatQuery(op.name))>>
        /\ result.kind = "ok"
        /\ result.val.k = "float"
        /\ PyEq(result.val, dev[StatQuery(op.name)][StatPlace(op.name) + 1].val)

C14_Witness ==
    /\ op.name = "std_resistance"
    /\ Texts = <<":TRACe:STATistics:STDDev?">>
    /\ dev[":TRACe:STATistics:STDDev?"][3].text = "753"
    /\ result = Outcome("ok", PyFloat(753, 0))

\* The limits of the timed arm: 1 ms and 99999.99 s.
TimedArmLimits == <<PyFloat(1, -3), PyFloat(9999999, -2)>>

\* C15: set_timed_arm(interval) raises RangeException and writes nothing
\* when interval < 0.001 or interval > 99999.99; for every interval of
\* [0.001, 99999.99], the bounds included, it writes exactly one message,
\* which selects the timer arm source and then sets the arm timer to the
\* interval, printed with three decimals.
C15_TimedArmWithinLimits ==
    (op.name = "set_timed_arm") =>
        IF ~InRange(op.arg, TimedArmLimits)
        THEN result = Outcome("RangeException", PyNone) /\ sent = <<>>
        ELSE /\ result.kind = "ok"
             /\ WroteOne
             /\ Len(sent[1].cmds) = 2
             /\ sent[1].cmds[1] = Cmd(":ARM:SOUR", Word("TIM"))
             /\ sent[1].cmds[2].hdr = ":ARM:TIM"
             /\ InRange(Written.val, TimedArmLimits)
             /\ op.arg.e >= -3 => PyEq(Written.val, op.arg)
             /\ op.arg = PyInt(1) => Texts = <<":ARM:SOUR TIM;:ARM:TIM 1.000">>

C15_Witness ==
    /\ op.name = "set_timed_arm" /\ op.arg = PyFloat(9999999, -2)
    /\ result.kind = "ok"
    /\ Texts = <<":ARM:SOUR TIM;:ARM:TIM 99999.990">>

CheckedMethods ==
    {"measure_resistance", "measure_voltage", "measure_current", "apply_current",
     "apply_voltage"}

\* C16: the error queue is drained only explicitly: no property get or set
\* (and no buffer statistic) calls check_errors; each of measure_resistance,
\* measure_voltage, measure_current, apply_current and apply_voltage calls
\* it exactly once, as its last step, after all of its writes.
C16_ErrorsDrainedOnlyByMethods ==
    /\ (IsSet \/ IsGet \/ op.name \in StatNames) =>
          \A i \in 1..Len(sent) : sent[i] # Call("check_errors")
    /\ (op.name \in CheckedMethods) =>
          /\ result.kind = "ok"
          /\ Len(Writes) >= 2
          /\ sent[Len(sent)] = Call("check_errors")
          /\ \A i \in 1..(Len(sent) - 1) : sent[i].kind \in {"write", "ask"}

C16_Witness ==
    /\ op.name = "apply_current" /\ op.arg.range = PyNone
    /\ op.arg.compliance = PyFloat(1, -1)
    /\ Texts = <<":SOUR:FUNC CURR", ":SOUR:FUNC?", ":SOUR:CURR:RANG:AUTO 1",
                 ":SOUR:CURR:VLIM 0.1", "check_errors">>

\* What shutdown ramps: the current when the source mode read is CURR, the
\* voltage otherwise.
ShutdownProp == IF op.before[1].text = "CURR" THEN K2450_source_current
                ELSE K2450_source_voltage

\* C18 (as claimed): every shutdown queries the source mode, ramps the
\* current (mode 'current') or the voltage (otherwise) to 0, calls
\* stop_buffer, writes 'OUTPUT OFF' and runs the base shutdown, in that
\* order: the last source-level write is 0 and precedes 'OUTPUT OFF', and
\* every started shutdown ends with 'OUTPUT OFF' sent.
C18_ShutdownZeroesThenDisables ==
    (op.name = "shutdown") =>
        /\ Len(sent) >= 6
        /\ sent[1] = AskMsg(":SOUR:FUNC?")
        /\ sent[2] = AskMsg(ShutdownProp.query)
        /\ \A i \in 3..(Len(sent) - 3) : IsLevelWrite(sent[i], ShutdownProp)
        /\ Denotes(sent[Len(sent) - 3].cmds[1].tok, PyInt(0))
        /\ sent[Len(sent) - 2] = Call("stop_buffer")
        /\ Render(sent[Len(sent) - 1]) = "OUTPUT OFF" /\ IsWrite(sent[Len(sent) - 1])
        /\ sent[Len(sent)] = Call("shutdown")

\* The bounds of the source ranges and compliances of Keithley2450.
CurrentLimits == <<PyFloat(-105, -2), PyFloat(105, -2)>>

VoltageLimits == <<PyInt(-210), PyInt(210)>>

\* The writes of apply_current / apply_voltage: the source mode; auto-range
\* on for that source when no range is given, else one message of
\* auto-range off and the clamped range; the clamped compliance.
ApplyWrites(mode, range, limits, compliance, compliance_limits) ==
    /\ Len(Writes) = 3
    /\ Render(Writes[1]) = ":SOUR:FUNC " \o mode
    /\ IF op.arg.range = PyNone
       THEN Render(Writes[2]) = range \o ":AUTO 1"
       ELSE /\ Len(Writes[2].cmds) = 2
            /\ Writes[2].cmds[1] = AutoOff(range)
            /\ Writes[2].cmds[2].hdr = range
            /\ Denotes(Writes[2].cmds[2].tok, Clamped(op.arg.range, limits))
            /\ \A i \in 1..Len(sent) : Render(sent[i]) # range \o ":AUTO 1"
    /\ Len(Writes[3].cmds) = 1
    /\ Writes[3].cmds[1].hdr = compliance
    /\ Denotes(Writes[3].cmds[1].tok, Clamped(op.arg.compliance, compliance_limits))
    /\ sent[1] = Writes[1]
    /\ sent[Len(sent) - 1] = Writes[3]
    /\ sent[Len(sent)] = Call("check_errors")

\* C19: apply_current writes source mode CURR, then auto-range on for the
\* current source (current_range None) or source_current_range (auto-range
\* off, then the range clamped to [-1.05, 1.05]) without any auto-range-on
\* command, then the compliance voltage clamped to [-210, 210], then drains
\* the errors; apply_voltage does the same with mode VOLT,
\* source_voltage_range ([-210, 210]) and the compliance current clamped to
\* [-1.05, 1.05].
C19_ApplyOrder ==
    /\ op.name = "apply_current" =>
          ApplyWrites("CURR", ":SOUR:CURR:RANG", CurrentLimits,
                      ":SOUR:CURR:VLIM", VoltageLimits)
    /\ op.name = "apply_voltage" =>
          ApplyWrites("VOLT", ":SOUR:VOLT:RANG", VoltageLimits,
                      ":SOUR:VOLT:ILIM", CurrentLimits)

C19_Witness ==
    /\ op.name = "apply_voltage" /\ op.arg.range = PyNone
    /\ op.arg.compliance = PyInt(5000)
    /\ Texts = <<":SOUR:FUNC VOLT", ":SOUR:FUNC?", ":SOUR:VOLT:RANG:AUTO 1",
                 ":SOUR:VOLT:ILIM 1.05", "check_errors">>

ResistanceLimits == <<PyInt(0), PyFloat(21, 7)>>

\* The writes of a measure_* method: the sense function with its NPLC in
\* one message, then either auto-range on alone or the range property's
\* message of auto-range off and the clamped range.
MeasureWrites(func, limits) ==
    /\ Len(Writes) = 2
    /\ sent[1] = Writes[1] /\ sent[2] = Writes[2]
    /\ Writes[1].cmds[1] = Cmd(":SENS:FUNC", Word("'" \o func \o "'"))
    /\ Writes[1].cmds[2].hdr = ":SENS:" \o func \o ":NPLC"
    /\ op.arg.nplc.e >= -6 => PyEq(Writes[1].cmds[2].tok.val, op.arg.nplc)
    /\ IF op.arg.auto_range
       THEN Render(Writes[2]) = ":SENS:" \o func \o ":RANG:AUTO 1;"
       ELSE /\ Len(Writes[2].cmds) = 2
            /\ Writes[2].cmds[1] = AutoOff(":SENS:" \o func \o ":RANG")
            /\ Writes[2].cmds[2].hdr = ":SENS:" \o func \o ":RANG"
            /\ Denotes(Writes[2].cmds[2].tok, Clamped(op.arg.value, limits))
            /\ \A i \in 1..Len(sent) :
                  \A j \in 1..Len(sent[i].cmds) :
                     sent[i].cmds[j] #
                        Cmd(":SENS:" \o func \o ":RANG:AUTO", Token("1", PyInt(1)))

-----------------------------------------------------------------------------
(* Statements about the output, the readings and the modes (specification  *)
(* SpecOutput).                                                            *)

\* The points of what is passed as datapoints: a number has none.
Points(arg) ==
    IF arg.datapoints.k \in {"list", "ndarray", "tuple"} THEN arg.datapoints.items
    ELSE <<>>

AllNumbers(arg) == \A j \in 1..Len(Points(arg)) : IsNumber(Points(arg)[j])

\* The arguments define_arbitary_waveform accepts: a list or array of at
\* most 100 numbers of [-1, 1] and a location that equals 1, 2, 3 or 4.
ValidWaveform(arg) ==
    /\ arg.datapoints.k \in {"list", "ndarray"}
    /\ Len(Points(arg)) <= 100
    /\ AllNumbers(arg)
    /\ \A i \in 1..Len(Points(arg)) : InRange(Points(arg)[i], <<PyInt(-1), PyInt(1)>>)
    /\ \E l \in {PyInt(1), PyInt(2), PyInt(3), PyInt(4)} : PyEq(arg.location, l)

\* One of the four conditions the method refuses with ValueError holds
\* (of points that are all numbers, unless the list is refused for its
\* type or length).
RefusedWaveform(arg) ==
    \/ arg.datapoints.k \notin {"list", "ndarray"}
    \/ Len(Points(arg)) > 100
    \/ /\ AllNumbers(arg)
       /\ \/ \E i \in 1..Len(Points(arg)) :
                ~InRange(Points(arg)[i], <<PyInt(-1), PyInt(1)>>)
          \/ \A l \in {PyInt(1), PyInt(2), PyInt(3), PyInt(4)} : ~PyEq(arg.location, l)

\* The digit of location l.
LocationDigit(l) == <<"1", "2", "3", "4">>[CHOOSE n \in 1..4 : PyEq(l, PyInt(n))]

\* C21: define_arbitary_waveform raises ValueError with nothing written
\* when datapoints is no list or array, has more than 100 points, holds a
\* point outside [-1, 1], or location is none of 1, 2, 3, 4; called with
\* valid arguments it writes exactly three messages: the data points, the
\* copy to the location, the waveform function ARB<location>.
C21_WaveformCheckedThenWritten ==
    (op.name = "define_arbitary_waveform") =>
        /\ RefusedWaveform(op.arg) =>
              result = Outcome("ValueError", PyNone) /\ sent = <<>>
        /\ ValidWaveform(op.arg) =>
              /\ result.kind = "ok"
              /\ Len(sent) = 3
              /\ \A i \in 1..3 : IsWrite(sent[i]) /\ Len(sent[i].cmds) = 1
              /\ Len(Points(op.arg)) > 0 =>
                    /\ sent[1].cmds[1].hdr = ":SOUR:WAVE:ARB:DATA"
                    /\ Points(op.arg) = <<PyInt(-1), PyInt(1)>> =>
                          Texts[1] = ":SOUR:WAVE:ARB:DATA -1, 1"
                    /\ Points(op.arg) = <<PyFloat(5, -1), PyInt(1)>> =>
                          Texts[1] = ":SOUR:WAVE:ARB:DATA 0.5, 1"
              /\ Len(Points(op.arg)) = 0 => Texts[1] = ":SOUR:WAVE:ARB:DATA "
              /\ Texts[2] = ":SOUR:WAVE:ARB:COPY " \o LocationDigit(op.arg.location)
              /\ Texts[3] = ":SOUR:WAVE:FUNC ARB" \o LocationDigit(op.arg.location)

C21_Witness ==
    /\ op.name = "define_arbitary_waveform"
    /\ Len(Points(op.arg)) = 100
    /\ op.arg.location = PyInt(4)
    /\ result.kind = "ok"
    /\ Len(sent) = 3
    /\ Texts[2] = ":SOUR:WAVE:ARB:COPY 4"
    /\ Texts[3] = ":SOUR:WAVE:FUNC ARB4"


\* C22: on a device that honours the output commands, a get of
\* source_enabled after enable_source, disable_source and (Keithley6221)
\* source_enabled sets asks the output query once and returns True when the
\* last of them was enable_source or source_enabled = True, False when it
\* was disable_source or source_enabled = False (last_set records which).
C22_OutputMethodsAgreeWithProperty ==
    (op.name = "get" /\ last_set # PyNone) =>
        /\ sent = <<AskMsg(IF Inst = "K2450" THEN "OUTPUT?" ELSE "OUTPut?")>>
        /\ result = Outcome("ok", last_set)

C22_Witness ==
    /\ Inst = "K2450"
    /\ op.name = "get"
    /\ last_set = PyBool(TRUE)
    /\ Texts = <<"OUTPUT?">>
    /\ result = Outcome("ok", PyBool(TRUE))


\* The reply of the device to ':READ?' as a get returns it.
ReadValue == [dev[":READ?"][1].val EXCEPT !.k = "float"]

\* C23: the reading getters current, voltage and resistance of Keithley2450
\* are indistinguishable to the device: in every device state, whichever
\* sense function was configured last, each sends the same ':READ?' query
\* and returns the same parsed reply, checked against no quantity.
C23_ReadingGettersIndistinguishable ==
    /\ (op.name = "reading") =>
          /\ sent = <<AskMsg(":READ?")>>
          /\ result = Outcome("ok", ReadValue)
    /\ (Inst = "K2450") =>
          \A g \in {K2450_current, K2450_voltage, K2450_resistance} :
             /\ g.query = ":READ?"
             /\ GetReply(g, Answer(dev, g.query)) = Outcome("ok", ReadValue)

C23_Witness ==
    /\ op.name = "reading" /\ op.arg = PyStr("current")
    /\ dev[":SENS:FUNC?"] = <<Word("'RES'")>>
    /\ Texts = <<":READ?">>
    /\ result = Outcome("ok", PyFloat(750, 0))


\* The one command of each arm, start and abort method of Keithley6221.
FixedCommand ==
    [waveform_arm |-> ":SOUR:WAVE:ARM", waveform_start |-> ":SOUR:WAVE:INIT",
     waveform_abort |-> ":SOUR:WAVE:ABOR", delta_arm |-> ":SOUR:DELT:ARM",
     delta_start |-> ":INIT:IMM", delta_abort |-> ":SOUR:SWE:ABOR"]

\* C24: Keithley6221 keeps no armed or running state of its own: whatever
\* calls came before (whatever mode the device is in), waveform_arm,
\* waveform_start, waveform_abort, delta_arm, delta_start and delta_abort
\* each write exactly their one fixed command, so the starts are sent also
\* when nothing is armed; shutdown writes only 'OUTPUT OFF', no abort, and
\* runs the base shutdown.
C24_DriverKeepsNoArmedState ==
    /\ (op.name \in DOMAIN FixedCommand) =>
          /\ result = Outcome("ok", PyNone)
          /\ Len(sent) = 1 /\ IsWrite(sent[1])
          /\ Texts = <<FixedCommand[op.name]>>
    /\ (Inst = "K6221" /\ op.name = "shutdown") =>
          /\ Len(sent) = 2 /\ IsWrite(sent[1])
          /\ Texts[1] = "OUTPUT OFF"
          /\ sent[2] = Call("shutdown")

\* shutdown has been called while the waveform runs, and it still runs.
C24_Witness ==
    /\ Inst = "K6221" /\ op.name = "shutdown"
    /\ dev["waveform"] = <<Word("running")>>
    /\ Texts = <<"OUTPUT OFF", "shutdown">>
    /\ dev["OUTPut?"] = <<Token("0", PyInt(0))>>

=============================================================================
